---- MODULE Spec2Model ----
(***************************************************************************)
(* Model of aox's doctest filtering: the filter-expression parser          *)
(* (aox/testing/doctest_filter_parsing.py), the filtering finder           *)
(* (aox/testing/doctest_filtering.py) and the testmod driver that builds   *)
(* the finder, finds the tests and runs them                               *)
(* (aox/testing/doctest_enhanced_testmod.py).                              *)
(*                                                                         *)
(* Python strings are sequences of one-character strings, so that          *)
(* stripping, splitting, number parsing and regex matching are computed    *)
(* character by character as the code computes them.  Test objects live    *)
(* in a heap (a sequence indexed by object id), so that object identity,   *)
(* copies and in-place mutation are distinguishable.                       *)
(*                                                                         *)
(* Spec is the testmod pipeline.  The methods of the parser are also       *)
(* specified on their own, each applied to texts drawn from a bounded set: *)
(* SpecFilter (parse_filter), SpecRanges (parse_number_range and           *)
(* parse_number_ranges), SpecName (parse_test_name), SpecParts             *)
(* (get_filter_parts) and SpecNumber (parse_number); SpecLiteral is        *)
(* parse_test_name on characters that mean something in a regular          *)
(* expression, and SpecMatch is matches_example on filters constructed     *)
(* directly.  SpecSelect and SpecCalls are the calls of find and           *)
(* filter_tests on a constructed finder, once and twice, and               *)
(* SpecController is Controller.test_challenge over the test modules       *)
(* (aox/controller/controller.py).                                         *)
(***************************************************************************)
EXTENDS Integers, Sequences, FiniteSets, TLC

VARIABLES
    pc,            \* position of the testmod_with_filter / finder calls
    filters_text,  \* the filter expression handed to FilteringDocTestFinder
    heap,          \* DocTest objects by id: [name, examples]
    original,      \* the heap as super().find left it (history)
    discovered,    \* ids returned by doctest.DocTestFinder.find (super().find)
    filters,       \* FilteringDocTestFinder.filters
    via,           \* which entry point produced `found`: "find" or "filter_tests"
    found,         \* ids returned by find / filter_tests (first application)
    refound,       \* ids returned by applying filter_tests to `found` again
    ran,           \* ids the runner ran, in order
    exception,     \* the exception that propagated, "" when none
    filter_text,   \* the text handed to a method of the parser (a single
                   \* filter token for parse_filter)
    parsed,        \* the result of that method
    index,         \* the example index handed to matches_example
    matched,       \* the result of matches_example
    filters_texts, \* the values of the --test flags (test_challenge)
    failing,       \* the examples that fail when run: <<name, position>>
    test_results   \* the TestResults returned by test_challenge

vars == <<pc, filters_text, heap, original, discovered, filters, via, found, refound,
          ran, exception, filter_text, parsed, index, matched,
          filters_texts, failing, test_results>>

pipeline_vars == <<filters_text, heap, original, discovered, filters, via, found,
                   refound, ran, exception>>

token_vars == <<filter_text, parsed, index, matched>>

controller_vars == <<filters_texts, failing, test_results>>

(***************************************************************************)
(* Bounds of the model.                                                    *)
(***************************************************************************)
MaxTests == 2
MaxExamples == 3
MaxTokens == 2
MaxIndex == 4
MaxSegments == 3
MaxSpecifierLen == 4
MaxNameLen == 4
MaxTokenLen == 4
MaxNumberLen == 3

(***************************************************************************)
(* Python str primitives, on sequences of characters.                      *)
(***************************************************************************)
WhitespaceChars == {" ", "\t", "\n"}

IsSpace(c) == c \in WhitespaceChars

RECURSIVE lstrip(_)
lstrip(s) ==
    IF s # <<>> /\ IsSpace(Head(s)) THEN lstrip(Tail(s)) ELSE s

RECURSIVE rstrip(_)
rstrip(s) ==
    IF s # <<>> /\ IsSpace(s[Len(s)])
    THEN rstrip(SubSeq(s, 1, Len(s) - 1))
    ELSE s

\* str.strip()
strip(s) == rstrip(lstrip(s))

\* str.split(sep) for a one-character separator: never empty, keeps empty
\* pieces.
RECURSIVE SplitFrom(_, _, _, _)
SplitFrom(s, sep, i, cur) ==
    IF i > Len(s) THEN <<cur>>
    ELSE IF s[i] = sep
         THEN <<cur>> \o SplitFrom(s, sep, i + 1, <<>>)
         ELSE SplitFrom(s, sep, i + 1, Append(cur, s[i]))

split(s, sep) == SplitFrom(s, sep, 1, <<>>)

\* re.split(r"[seps]+", s): splits at every maximal run of separator
\* characters; a leading or trailing run leaves an empty piece.
RECURSIVE ReSplitFrom(_, _, _, _)
ReSplitFrom(s, seps, i, cur) ==
    IF i > Len(s) THEN <<cur>>
    ELSE IF s[i] \in seps
         THEN IF i > 1 /\ s[i - 1] \in seps
              THEN ReSplitFrom(s, seps, i + 1, cur)
              ELSE <<cur>> \o ReSplitFrom(s, seps, i + 1, <<>>)
         ELSE ReSplitFrom(s, seps, i + 1, Append(cur, s[i]))

re_split(seps, s) == ReSplitFrom(s, seps, 1, <<>>)

\* str.replace(ch, "")
remove_char(s, ch) == SelectSeq(s, LAMBDA c : c # ch)

\* sep.join(pieces)
RECURSIVE join(_, _)
join(sep, pieces) ==
    IF pieces = <<>> THEN <<>>
    ELSE IF Len(pieces) = 1 THEN pieces[1]
    ELSE pieces[1] \o sep \o join(sep, Tail(pieces))

DigitChars == <<"0", "1", "2", "3", "4", "5", "6", "7", "8", "9">>

IsDigit(c) == \E d \in 1..10 : DigitChars[d] = c

DigitValue(c) == (CHOOSE d \in 1..10 : DigitChars[d] = c) - 1

\* The digits body of an int() literal: digits, with single underscores
\* allowed between digits only.
RECURSIVE IntBodyOk(_, _)
IntBodyOk(s, i) ==
    IF i > Len(s) THEN TRUE
    ELSE IF IsDigit(s[i]) THEN IntBodyOk(s, i + 1)
    ELSE /\ s[i] = "_"
         /\ i > 1 /\ IsDigit(s[i - 1])
         /\ i < Len(s) /\ IsDigit(s[i + 1])
         /\ IntBodyOk(s, i + 1)

RECURSIVE IntBodyValue(_, _)
IntBodyValue(s, acc) ==
    IF s = <<>> THEN acc
    ELSE IF Head(s) = "_" THEN IntBodyValue(Tail(s), acc)
    ELSE IntBodyValue(Tail(s), 10 * acc + DigitValue(Head(s)))

\* An optionally signed int() literal, its sign already taken off.
SignedInt(negative, body) ==
    IF body # <<>> /\ IntBodyOk(body, 1)
    THEN [ok |-> TRUE,
          value |-> IF negative THEN 0 - IntBodyValue(body, 0)
                    ELSE IntBodyValue(body, 0)]
    ELSE [ok |-> FALSE, value |-> 0]

StrippedInt(t) ==
    IF t # <<>> /\ Head(t) \in {"+", "-"}
    THEN SignedInt(Head(t) = "-", Tail(t))
    ELSE SignedInt(FALSE, t)

py_int_digits_only(text) ==
    IF text # <<>> /\ \A k \in 1..Len(text) : IsDigit(text[k])
    THEN [ok |-> TRUE, value |-> IntBodyValue(text, 0)]
    ELSE [ok |-> FALSE, value |-> 0]

\* int(text): surrounding whitespace is ignored, one sign is allowed;
\* ok = FALSE stands for ValueError.
py_int(text) == StrippedInt(strip(text))

(***************************************************************************)
(* Compiled regular expressions, as sequences of atoms: a literal          *)
(* character, ".*", or the final "$".                                      *)
(***************************************************************************)
Lit(c) == [t |-> "lit", c |-> c]
DotStar == [t |-> "dotstar", c |-> ""]
EndAnchor == [t |-> "end", c |-> ""]
AnyChar == [t |-> "any", c |-> ""]

\* The pattern text used as it is: '.' and '$' keep their meaning.
re_verbatim(part) ==
    [k \in 1..Len(part) |->
        IF part[k] = "." THEN AnyChar
        ELSE IF part[k] = "$" THEN EndAnchor
        ELSE Lit(part[k])]

\* re.escape(part): every character of the part is taken literally.
re_escape(part) == [k \in 1..Len(part) |-> Lit(part[k])]

\* ".*".join(parts) followed by "$"
RECURSIVE JoinDotStar(_)
JoinDotStar(parts) ==
    IF parts = <<>> THEN <<>>
    ELSE IF Len(parts) = 1 THEN parts[1]
    ELSE parts[1] \o <<DotStar>> \o JoinDotStar(Tail(parts))

\* Pattern.match(s): the pattern matches at the start of s.  "." matches
\* anything but a newline; "$" matches at the end, or before a final newline.
RECURSIVE MatchAt(_, _, _, _)
MatchAt(r, i, s, p) ==
    IF i > Len(r) THEN TRUE
    ELSE IF r[i].t = "lit"
         THEN p <= Len(s) /\ s[p] = r[i].c /\ MatchAt(r, i + 1, s, p + 1)
    ELSE IF r[i].t = "dotstar"
         THEN \E q \in p..(Len(s) + 1) :
                  /\ \A k \in p..(q - 1) : s[k] # "\n"
                  /\ MatchAt(r, i + 1, s, q)
    ELSE IF r[i].t = "any"
         THEN p <= Len(s) /\ s[p] # "\n" /\ MatchAt(r, i + 1, s, p + 1)
    ELSE /\ \/ p = Len(s) + 1
            \/ p = Len(s) /\ s[p] = "\n"
         /\ MatchAt(r, i + 1, s, p)

re_match(r, s) == MatchAt(r, 1, s, 1)

(***************************************************************************)
(* IndexedDocTestFilterParser.  A result record carries err: the name of   *)
(* the exception raised, "" when the call returns.                         *)
(***************************************************************************)
NoError == ""
InvalidTestFilterException == "InvalidTestFilterException"
NotImplementedError == "NotImplementedError"

\* The end the parser gives a range with no upper bound.
OpenEnd == 10000

\* if number is None or number < 0: raise
CheckedNumber(n) ==
    IF ~n.ok \/ n.value < 0
    THEN [err |-> InvalidTestFilterException, value |-> 0]
    ELSE [err |-> NoError, value |-> n.value]

parse_number(number_text) == CheckedNumber(py_int(number_text))

\* range(start, stop)
Range(start, stop) == [start |-> start, stop |-> stop]

RangeResultExclusive(start, end) ==
    IF start.err # NoError \/ end.err # NoError
    THEN [err |-> InvalidTestFilterException, range |-> Range(0, 0)]
    ELSE [err |-> NoError, range |-> Range(start.value, end.value)]

RangeResultOrdered(start, end) ==
    IF start.err # NoError \/ end.err # NoError
    THEN [err |-> InvalidTestFilterException, range |-> Range(0, 0)]
    ELSE IF start.value > end.value
    THEN [err |-> NoError, range |-> Range(end.value, start.value + 1)]
    ELSE [err |-> NoError, range |-> Range(start.value, end.value + 1)]

\* return range(start, end + 1), unless parsing start or end raised
RangeResult(start, end) ==
    IF start.err # NoError \/ end.err # NoError
    THEN [err |-> InvalidTestFilterException, range |-> Range(0, 0)]
    ELSE [err |-> NoError, range |-> Range(start.value, end.value + 1)]

Number(n) == [err |-> NoError, value |-> n]

RangeOfPartsFromOne(parts) ==
    IF Len(parts) > 2
    THEN [err |-> InvalidTestFilterException, range |-> Range(0, 0)]
    ELSE IF Len(parts) = 1
    THEN IF parts[1] = <<>>
         THEN RangeResult(Number(0), Number(OpenEnd))
         ELSE RangeResult(parse_number(parts[1]), parse_number(parts[1]))
    ELSE IF parts[1] = <<>> /\ parts[2] = <<>>
         THEN RangeResult(Number(0), Number(OpenEnd))
    ELSE IF parts[1] = <<>>
         THEN RangeResult(Number(1), parse_number(parts[2]))
    ELSE IF parts[2] = <<>>
         THEN RangeResult(parse_number(parts[1]), Number(OpenEnd))
    ELSE RangeResult(parse_number(parts[1]), parse_number(parts[2]))

\* parse_number_range, once the text is stripped and split at "-"
RangeOfParts(parts) ==
    IF Len(parts) > 2
    THEN [err |-> InvalidTestFilterException, range |-> Range(0, 0)]
    ELSE IF Len(parts) = 1
    THEN IF parts[1] = <<>>
         THEN RangeResult(Number(0), Number(OpenEnd))
         ELSE RangeResult(parse_number(parts[1]), parse_number(parts[1]))
    ELSE IF parts[1] = <<>> /\ parts[2] = <<>>
         THEN RangeResult(Number(0), Number(OpenEnd))
    ELSE IF parts[1] = <<>>
         THEN RangeResult(Number(0), parse_number(parts[2]))
    ELSE IF parts[2] = <<>>
         THEN RangeResult(parse_number(parts[1]), Number(OpenEnd))
    ELSE RangeResult(parse_number(parts[1]), parse_number(parts[2]))

parse_number_range(number_range_text) ==
    RangeOfParts(split(strip(number_range_text), "-"))

RECURSIVE ValidRanges(_)
ValidRanges(results) ==
    IF results = <<>> THEN <<>>
    ELSE IF Head(results).err # NoError THEN ValidRanges(Tail(results))
    ELSE <<Head(results).range>> \o ValidRanges(Tail(results))

CollectValidRanges(results) ==
    [err |-> NoError, ranges |-> ValidRanges(results)]

\* The list comprehension of parse_number_ranges: any raise propagates.
CollectRanges(results) ==
    IF \E k \in 1..Len(results) : results[k].err # NoError
    THEN [err |-> InvalidTestFilterException, ranges |-> <<>>]
    ELSE [err |-> NoError,
          ranges |-> [k \in 1..Len(results) |-> results[k].range]]

ParseEachRange(texts) ==
    [k \in 1..Len(texts) |-> parse_number_range(texts[k])]

parse_number_ranges(number_ranges_text) ==
    CollectRanges(ParseEachRange(split(number_ranges_text, ",")))

FilterPartsFirstTwo(parts) ==
    IF Len(parts) = 1
    THEN [err |-> NoError, name |-> parts[1], numbers |-> <<>>]
    ELSE [err |-> NoError, name |-> parts[1], numbers |-> parts[2]]

\* get_filter_parts, once the text is stripped and split at ":"
FilterParts(parts) ==
    IF Len(parts) > 2
    THEN [err |-> InvalidTestFilterException, name |-> <<>>, numbers |-> <<>>]
    ELSE IF Len(parts) = 1
    THEN [err |-> NoError, name |-> parts[1], numbers |-> <<>>]
    ELSE [err |-> NoError, name |-> parts[1], numbers |-> parts[2]]

get_filter_parts(text) == FilterParts(split(strip(text), ":"))

CompilePartsUnanchored(parts) ==
    JoinDotStar([k \in 1..Len(parts) |-> re_escape(parts[k])])

\* re.compile(f"{'.*'.join(map(re.escape, parts))}$")
CompileParts(parts) ==
    JoinDotStar([k \in 1..Len(parts) |-> re_escape(parts[k])])
        \o <<EndAnchor>>

StrippedTestNameFromStart(text) ==
    IF remove_char(text, "*") = <<>>
    THEN [err |-> InvalidTestFilterException, regex |-> <<>>]
    ELSE [err |-> NoError, regex |-> CompileParts(re_split({"*"}, text))]

StrippedTestNameUnchecked(text) ==
    [err |-> NoError,
     regex |-> CompileParts(re_split({"*"}, <<"*">> \o text))]

\* parse_test_name, once the text is stripped
StrippedTestName(text) ==
    IF remove_char(text, "*") = <<>>
    THEN [err |-> InvalidTestFilterException, regex |-> <<>>]
    ELSE [err |-> NoError,
          regex |-> CompileParts(re_split({"*"}, <<"*">> \o text))]

parse_test_name(test_name_text) == StrippedTestName(strip(test_name_text))

\* IndexedDocTestFilter(name_regex, number_ranges); number_ranges is an
\* Optional list: is_none stands for None.
IndexedDocTestFilter(name_regex, number_ranges) ==
    [name_regex |-> name_regex, number_ranges |-> number_ranges]

SomeRanges(ranges) == [is_none |-> FALSE, list |-> ranges]
NoRanges == [is_none |-> TRUE, list |-> <<>>]

NoFilter == IndexedDocTestFilter(<<>>, SomeRanges(<<>>))

\* IndexedDocTestFilter(parse_test_name(..), parse_number_ranges(..)): the
\* arguments are evaluated left to right and the first raise propagates.
FilterOf(name, ranges) ==
    IF name.err # NoError
    THEN [err |-> name.err, filter |-> NoFilter]
    ELSE IF ranges.err # NoError
    THEN [err |-> ranges.err, filter |-> NoFilter]
    ELSE [err |-> NoError,
          filter |-> IndexedDocTestFilter(name.regex,
                                          SomeRanges(ranges.ranges))]

FilterOfParts(parts) ==
    IF parts.err # NoError
    THEN [err |-> parts.err, filter |-> NoFilter]
    ELSE FilterOf(parse_test_name(parts.name),
                  parse_number_ranges(parts.numbers))

parse_filter(text) == FilterOfParts(get_filter_parts(text))

\* DocTestFilterParser.split_filter_texts, once the text is stripped
SplitStripped(stripped) ==
    IF stripped = <<>> THEN <<>>
    ELSE re_split(WhitespaceChars, stripped)

split_filter_texts_unstripped(text) == re_split(WhitespaceChars, text)

split_filter_texts(text) == SplitStripped(strip(text))

\* The list comprehension of parse_filters: the tokens are parsed left to
\* right and the first raise propagates.
PrependFilterSkipInvalid(first, rest) ==
    IF first.err # NoError THEN rest
    ELSE IF rest.err # NoError
    THEN [err |-> rest.err, filters |-> <<>>]
    ELSE [err |-> NoError, filters |-> <<first.filter>> \o rest.filters]

PrependFilter(first, rest) ==
    IF first.err # NoError
    THEN [err |-> first.err, filters |-> <<>>]
    ELSE IF rest.err # NoError
    THEN [err |-> rest.err, filters |-> <<>>]
    ELSE [err |-> NoError, filters |-> <<first.filter>> \o rest.filters]

RECURSIVE ParseEachReversed(_)
ParseEachReversed(texts) ==
    IF texts = <<>> THEN [err |-> NoError, filters |-> <<>>]
    ELSE PrependFilter(parse_filter(texts[Len(texts)]),
                       ParseEachReversed(SubSeq(texts, 1, Len(texts) - 1)))

RECURSIVE ParseEach(_)
ParseEach(texts) ==
    IF texts = <<>> THEN [err |-> NoError, filters |-> <<>>]
    ELSE PrependFilter(parse_filter(Head(texts)), ParseEach(Tail(texts)))

parse_filters(text) == ParseEach(split_filter_texts(text))

(***************************************************************************)
(* IndexedDocTestFilter: matching.                                         *)
(***************************************************************************)
matches_test(f, test) == re_match(f.name_regex, test.name)

\* index in range(start, stop)
InRange(i, r) == r.start <= i /\ i < r.stop

matches_example_every_range(f, i) ==
    IF f.number_ranges.is_none THEN TRUE
    ELSE \A k \in 1..Len(f.number_ranges.list) :
             InRange(i, f.number_ranges.list[k])

matches_example_unless_empty(f, i) ==
    IF f.number_ranges.is_none \/ f.number_ranges.list = <<>> THEN TRUE
    ELSE \E k \in 1..Len(f.number_ranges.list) :
             InRange(i, f.number_ranges.list[k])

\* IndexedDocTestFilter.matches_example(test, example, index)
matches_example(f, i) ==
    IF f.number_ranges.is_none THEN TRUE
    ELSE \E k \in 1..Len(f.number_ranges.list) :
             InRange(i, f.number_ranges.list[k])

(***************************************************************************)
(* FilteringDocTestFinder.  A call that may allocate returns the heap it   *)
(* leaves together with its result.                                        *)
(***************************************************************************)
None == 0

\* [example for index, example in enumerate(examples)
\*  if any(f.matches_example(test, example, index) for f in matching)]
RECURSIVE KeptExamples(_, _, _)
KeptExamples(examples, position, matching_filters) ==
    IF position > Len(examples) THEN <<>>
    ELSE LET rest == KeptExamples(examples, position + 1, matching_filters)
         IN IF \E k \in 1..Len(matching_filters) :
                   matches_example(matching_filters[k], position - 1)
            THEN <<examples[position]>> \o rest
            ELSE rest

FirstMatchingFilter(fs, test) ==
    IF \E k \in 1..Len(fs) : matches_test(fs[k], test)
    THEN <<fs[CHOOSE k \in 1..Len(fs) :
                  /\ matches_test(fs[k], test)
                  /\ \A j \in 1..(k - 1) : ~matches_test(fs[j], test)]>>
    ELSE <<>>

\* matching_filters = [f for f in filters if f.matches_test(test)]
MatchingFilters(fs, test) == SelectSeq(fs, LAMBDA f : matches_test(f, test))

SelectExamplesAnyFilter(fs, test) == KeptExamples(test.examples, 1, fs)

\* examples = [...]: the examples some matching filter matches
SelectExamples(fs, test) ==
    KeptExamples(test.examples, 1, MatchingFilters(fs, test))

ReturnTestInPlace(h, t, examples) ==
    IF examples = <<>> THEN [heap |-> h, ret |-> None]
    ELSE [heap |-> [h EXCEPT ![t].examples = examples], ret |-> t]

ReturnTestAlwaysCopy(h, t, examples) ==
    IF examples = <<>> THEN [heap |-> h, ret |-> None]
    ELSE [heap |-> Append(h, [h[t] EXCEPT !.examples = examples]),
          ret |-> Len(h) + 1]

ReturnTestTrimmingBoth(h, t, examples) ==
    IF examples = <<>> THEN [heap |-> h, ret |-> None]
    ELSE IF examples # h[t].examples
    THEN [heap |-> Append([h EXCEPT ![t].examples = examples],
                          [h[t] EXCEPT !.examples = examples]),
          ret |-> Len(h) + 1]
    ELSE [heap |-> h, ret |-> t]

ReturnTestKeepingEmpty(h, t, examples) ==
    IF examples # h[t].examples
    THEN IF examples = <<>> THEN [heap |-> h, ret |-> None]
         ELSE [heap |-> Append(h, [h[t] EXCEPT !.examples = examples]),
               ret |-> Len(h) + 1]
    ELSE [heap |-> h, ret |-> t]

ReturnTestCopyUntrimmed(h, t, examples) ==
    IF examples = <<>> THEN [heap |-> h, ret |-> None]
    ELSE IF examples # h[t].examples
    THEN [heap |-> Append(h, h[t]), ret |-> Len(h) + 1]
    ELSE [heap |-> h, ret |-> t]

\* if not examples: return None; if examples != test.examples: return a
\* copy.copy(test) holding examples; else return test
ReturnTest(h, t, examples) ==
    IF examples = <<>> THEN [heap |-> h, ret |-> None]
    ELSE IF examples # h[t].examples
    THEN [heap |-> Append(h, [h[t] EXCEPT !.examples = examples]),
          ret |-> Len(h) + 1]
    ELSE [heap |-> h, ret |-> t]

filter_test_passing_without_filters(fs, h, t) ==
    IF fs = <<>> THEN [heap |-> h, ret |-> t]
    ELSE IF MatchingFilters(fs, h[t]) = <<>> THEN [heap |-> h, ret |-> None]
    ELSE ReturnTest(h, t, SelectExamples(fs, h[t]))

\* FilteringDocTestFinder.filter_test
filter_test(fs, h, t) ==
    IF MatchingFilters(fs, h[t]) = <<>> THEN [heap |-> h, ret |-> None]
    ELSE ReturnTest(h, t, SelectExamples(fs, h[t]))

KeepResultAppended(ret, rest) ==
    [heap |-> rest.heap,
     tests |-> IF ret = None THEN rest.tests ELSE rest.tests \o <<ret>>]

\* filter(None, ...): a None result is left out, the others keep their order
KeepResult(ret, rest) ==
    [heap |-> rest.heap,
     tests |-> IF ret = None THEN rest.tests ELSE <<ret>> \o rest.tests]

\* list(filter(None, (self.filter_test(filters, test) for test in tests)))
RECURSIVE FilterEach(_, _, _)
RECURSIVE FilterRest(_, _, _)
FilterEach(fs, h, tests) ==
    IF tests = <<>> THEN [heap |-> h, tests |-> <<>>]
    ELSE FilterRest(fs, filter_test(fs, h, Head(tests)), Tail(tests))

FilterRest(fs, first, tail) ==
    KeepResult(first.ret, FilterEach(fs, first.heap, tail))

filter_tests(fs, h, tests) == FilterEach(fs, h, tests)

\* FilteringDocTestFinder.find, after super().find returned `tests`
find(fs, h, tests) ==
    IF fs # <<>> THEN filter_tests(fs, h, tests)
    ELSE [heap |-> h, tests |-> tests]

(***************************************************************************)
(* Inputs.                                                                 *)
(***************************************************************************)
\* Fully qualified test names, in the order the finder discovers them.
Names == << <<"a", ".", "m">>, <<"a", ".", "p", "m">>, <<"b", ".", "n">> >>

\* Filter tokens of an expression.
Tokens ==
    { <<"m">>,
      <<"p", "m", ":", "-", "1">>,
      <<"m", ":", "1">>,
      <<"n", ":", "0", ",", "2", "-">>,
      <<"m", ":", "1", "-", "2", "-", "3">> }

\* Tokens of the expressions written with extra whitespace.
PaddedTokens == { <<"m">>, <<"p", "m", ":", "-", "1">> }

TokenLists == UNION { [1..n -> Tokens] : n \in 1..MaxTokens }

Expressions ==
    { <<>>, <<" ">>, <<" ", "\t", "\n">> }
    \cup { join(<<" ">>, ts) : ts \in TokenLists }
    \cup { <<" ">> \o join(<<" ", "\t">>, ts) \o <<"\n">> :
             ts \in [1..MaxTokens -> PaddedTokens] }

\* A discovered test: its examples are named by their original position.
DocTest(name, n) == [name |-> name, examples |-> [p \in 1..n |-> p - 1]]

Ascending(S) ==
    SelectSeq([i \in 1..Len(Names) |-> i], LAMBDA i : i \in S)

Heaps ==
    { [k \in 1..Cardinality(S) |-> DocTest(Names[Ascending(S)[k]], n[k])] :
        S \in { T \in SUBSET (1..Len(Names)) : Cardinality(T) <= MaxTests },
        n \in [1..MaxTests -> 0..MaxExamples] }

Ids(h) == [k \in 1..Len(h) |-> k]

\* The scenario of the filter documentation: 'method:10-20,7' on a test
\* with 25 examples.
ScenarioName ==
    <<"p", "k", "g", ".", "m", "o", "d", ".", "m", "e", "t", "h", "o", "d">>

ScenarioText ==
    <<"m", "e", "t", "h", "o", "d", ":", "1", "0", "-", "2", "0", ",", "7">>

ScenarioExamples == 25

(***************************************************************************)
(* The testmod pipeline: construct the finder, find, run.                  *)
(***************************************************************************)
NoResults == [attempted |-> 0, failed |-> 0]

ControllerIdle ==
    /\ filters_texts = <<>>
    /\ failing = {}
    /\ test_results = NoResults

TokenIdle ==
    /\ filter_text = <<>>
    /\ parsed = [err |-> NoError, filter |-> NoFilter]
    /\ index = 0
    /\ matched = FALSE

Init ==
    /\ pc = "start"
    /\ \/ /\ filters_text \in Expressions
          /\ heap \in Heaps
       \/ /\ filters_text = ScenarioText
          /\ heap = <<DocTest(ScenarioName, ScenarioExamples)>>
    /\ original = heap
    /\ discovered = Ids(heap)
    /\ filters = <<>>
    /\ via = ""
    /\ found = <<>>
    /\ refound = <<>>
    /\ ran = <<>>
    /\ exception = NoError
    /\ TokenIdle
    /\ ControllerIdle

\* FilteringDocTestFinder.__init__
Construct ==
    /\ pc = "start"
    /\ \E r \in {parse_filters(filters_text)} :
          IF r.err # NoError
          THEN /\ pc' = "raised"
               /\ exception' = r.err
               /\ filters' = filters
          ELSE /\ pc' = "constructed"
               /\ exception' = exception
               /\ filters' = r.filters
    /\ UNCHANGED <<filters_text, heap, original, discovered, via, found,
                   refound, ran>>
    /\ UNCHANGED token_vars
    /\ UNCHANGED controller_vars

\* FilteringDocTestFinder.find
Find ==
    /\ pc = "constructed"
    /\ LET r == find(filters, heap, discovered)
       IN /\ heap' = r.heap
          /\ found' = r.tests
    /\ via' = "find"
    /\ pc' = "found"
    /\ UNCHANGED <<filters_text, original, discovered, filters, refound, ran,
                   exception>>
    /\ UNCHANGED token_vars
    /\ UNCHANGED controller_vars

\* FilteringDocTestFinder.filter_tests(tests, self.filters), called directly
FilterTests ==
    /\ pc = "constructed"
    /\ LET r == filter_tests(filters, heap, discovered)
       IN /\ heap' = r.heap
          /\ found' = r.tests
    /\ via' = "filter_tests"
    /\ pc' = "found"
    /\ UNCHANGED <<filters_text, original, discovered, filters, refound, ran,
                   exception>>
    /\ UNCHANGED token_vars
    /\ UNCHANGED controller_vars

\* filter_tests applied to its own result
FilterTestsAgain ==
    /\ pc = "found"
    /\ LET r == filter_tests(filters, heap, found)
       IN /\ heap' = r.heap
          /\ refound' = r.tests
    /\ pc' = "refiltered"
    /\ UNCHANGED <<filters_text, original, discovered, filters, via, found, ran,
                   exception>>
    /\ UNCHANGED token_vars
    /\ UNCHANGED controller_vars

\* testmod_with_finder: for test in finder.find(...): runner.run(test)
Run ==
    /\ pc = "found"
    /\ via = "find"
    /\ ran' = found
    /\ pc' = "done"
    /\ UNCHANGED <<filters_text, heap, original, discovered, filters, via,
                   found, refound, exception>>
    /\ UNCHANGED token_vars
    /\ UNCHANGED controller_vars

Next ==
    \/ Construct
    \/ Find
    \/ FilterTests
    \/ FilterTestsAgain
    \/ Run

Spec == Init /\ [][Next]_vars

(***************************************************************************)
(* A single filter token: parse_filter, then matches_example on the       *)
(* parsed filter.                                                          *)
(***************************************************************************)
\* str(n)
RECURSIVE DecimalText(_)
DecimalText(n) ==
    IF n < 10 THEN <<DigitChars[n + 1]>>
    ELSE DecimalText(n \div 10) \o <<DigitChars[(n % 10) + 1]>>

TokenNumbers == {0, 1, 3, 256, 512, OpenEnd, OpenEnd + 1}

TokenName == <<"m">>

NameColon == TokenName \o <<":">>

Single(n) == NameColon \o DecimalText(n)
From(n) == NameColon \o DecimalText(n) \o <<"-">>
UpTo(m) == NameColon \o <<"-">> \o DecimalText(m)
FromTo(n, m) == NameColon \o DecimalText(n) \o <<"-">> \o DecimalText(m)
Dash == NameColon \o <<"-">>

FilterTexts ==
    {TokenName, NameColon, Dash}
    \cup { Single(n) : n \in TokenNumbers }
    \cup { From(n) : n \in TokenNumbers }
    \cup { UpTo(m) : m \in TokenNumbers }
    \cup { FromTo(n, m) : n \in TokenNumbers, m \in TokenNumbers }

ProbeIndexes ==
    (0..MaxIndex)
    \cup { i \in UNION { {n - 1, n, n + 1} : n \in TokenNumbers } : i >= 0 }

PipelineIdle ==
    /\ filters_text = <<>>
    /\ heap = <<>>
    /\ original = <<>>
    /\ discovered = <<>>
    /\ filters = <<>>
    /\ via = ""
    /\ found = <<>>
    /\ refound = <<>>
    /\ ran = <<>>
    /\ exception = NoError
    /\ ControllerIdle

InitFilter ==
    /\ pc = "token"
    /\ filter_text \in FilterTexts
    /\ parsed = [err |-> NoError, filter |-> NoFilter]
    /\ index = 0
    /\ matched = FALSE
    /\ PipelineIdle

\* IndexedDocTestFilterParser().parse_filter(filter_text)
ParseFilter ==
    /\ pc = "token"
    /\ parsed' = parse_filter(filter_text)
    /\ pc' = IF parsed'.err # NoError THEN "token_raised" ELSE "parsed"
    /\ UNCHANGED <<filter_text, index, matched>>
    /\ UNCHANGED pipeline_vars
    /\ UNCHANGED controller_vars

\* parsed_filter.matches_example(test, example, index)
MatchesExample ==
    /\ pc = "parsed"
    /\ \E i \in ProbeIndexes :
          /\ index' = i
          /\ matched' = matches_example(parsed.filter, i)
    /\ pc' = "matched"
    /\ UNCHANGED <<filter_text, parsed>>
    /\ UNCHANGED pipeline_vars
    /\ UNCHANGED controller_vars

NextFilter ==
    \/ ParseFilter
    \/ MatchesExample

SpecFilter == InitFilter /\ [][NextFilter]_vars

(***************************************************************************)
(* The ranges part of a token: parse_number_range and parse_number_ranges  *)
(* on the text, parse_filter and parse_filters on tokens that carry it,    *)
(* then matches_example on the parsed ranges.                              *)
(***************************************************************************)
SegmentFromTo(n, m) == DecimalText(n) \o <<"-">> \o DecimalText(m)

\* 'N-M' with N > M
ReversedSegments ==
    { SegmentFromTo(n, m) : n \in {20, 512}, m \in {10, 256} }

ValidSegments ==
    { <<>>, <<"1">>, <<"7">>, <<"-", "5">>, <<"6", "0", "0", "-">>,
      SegmentFromTo(10, 20), SegmentFromTo(20, 10) }

\* Segments the parser rejects: more than one '-', or not a number.
MalformedSegments ==
    { <<"1", "0", "-", "2", "0", "-", "4", "0">>,
      <<"5", "-", "a", "b", "c">> }

InvalidSegments ==
    MalformedSegments
    \cup { <<"0", "x", "f">>,
           <<"2", "5", "6", "-", "5", "1", "2", "-", "7", "6", "8">> }

Segments == ValidSegments \cup MalformedSegments

SegmentLists == UNION { [1..n -> Segments] : n \in 1..MaxSegments }

\* The index specifiers of the parse_number_ranges documentation.
DocumentedRanges ==
    { <<"1", ",", "2", "0", "-", "1", "0", ",", "7">>,
      <<"1", ",", "2", "0", "-", "1", "0", ",", "7", ",", "1", "0", ",",
        "1", "1">>,
      <<"6", "0", "0", "-", ",", "1", "0", "-", "2", "0", ",", ",", "-",
        "5">>,
      <<"6", "0", "0", "-", ",", "1", "0", "-", "2", "0", "-", "4", "0",
        ",", ",", "-", "5">>,
      <<"0", "x", "f">>,
      <<"2", "5", "6", "-", "5", "1", "2", "-", "7", "6", "8">>,
      SegmentFromTo(512, 256) }

RangesTexts ==
    { join(<<",">>, segments) : segments \in SegmentLists }
    \cup DocumentedRanges

RangeProbeIndexes ==
    (0..MaxIndex)
    \cup {5, 6, 7, 8, 9, 10, 11, 19, 20, 21, 255, 256, 512, 513, 599, 600,
          601, OpenEnd, OpenEnd + 1}

InitRanges ==
    /\ pc = "ranges"
    /\ filter_text \in RangesTexts
    /\ parsed = [err |-> NoError, filter |-> NoFilter]
    /\ index = 0
    /\ matched = FALSE
    /\ PipelineIdle

\* IndexedDocTestFilterParser().parse_number_range(filter_text)
ParseNumberRange ==
    /\ pc = "ranges"
    /\ parsed' = parse_number_range(filter_text)
    /\ pc' = IF parsed'.err # NoError THEN "range_raised" ELSE "range_parsed"
    /\ UNCHANGED <<filter_text, index, matched>>
    /\ UNCHANGED pipeline_vars
    /\ UNCHANGED controller_vars

\* IndexedDocTestFilterParser().parse_number_ranges(filter_text)
ParseNumberRanges ==
    /\ pc = "ranges"
    /\ parsed' = parse_number_ranges(filter_text)
    /\ pc' = IF parsed'.err # NoError THEN "ranges_raised"
             ELSE "ranges_parsed"
    /\ UNCHANGED <<filter_text, index, matched>>
    /\ UNCHANGED pipeline_vars
    /\ UNCHANGED controller_vars

\* The token 'm:<ranges>'
RangesToken(text) == NameColon \o text

\* IndexedDocTestFilterParser().parse_filter('m:<ranges>')
ParseFilterOfRanges ==
    /\ pc = "ranges"
    /\ parsed' = parse_filter(RangesToken(filter_text))
    /\ pc' = IF parsed'.err # NoError THEN "filter_raised"
             ELSE "filter_parsed"
    /\ UNCHANGED <<filter_text, index, matched>>
    /\ UNCHANGED pipeline_vars
    /\ UNCHANGED controller_vars

\* The expression 'm m:<ranges> m': the token between two valid tokens.
RangesExpression(text) ==
    TokenName \o <<" ">> \o RangesToken(text) \o <<" ">> \o TokenName

\* IndexedDocTestFilterParser().parse_filters('m m:<ranges> m')
ParseFiltersOfRanges ==
    /\ pc = "ranges"
    /\ parsed' = parse_filters(RangesExpression(filter_text))
    /\ pc' = IF parsed'.err # NoError THEN "filters_raised"
             ELSE "filters_parsed"
    /\ UNCHANGED <<filter_text, index, matched>>
    /\ UNCHANGED pipeline_vars
    /\ UNCHANGED controller_vars

\* IndexedDocTestFilter(name_regex, number_ranges).matches_example(test,
\* example, index), on the ranges parse_number_ranges returned
MatchesIndex ==
    /\ pc = "ranges_parsed"
    /\ \E i \in RangeProbeIndexes :
          /\ index' = i
          /\ matched' =
                matches_example(
                    IndexedDocTestFilter(<<>>, SomeRanges(parsed.ranges)), i)
    /\ pc' = "ranges_matched"
    /\ UNCHANGED <<filter_text, parsed>>
    /\ UNCHANGED pipeline_vars
    /\ UNCHANGED controller_vars

NextRanges ==
    \/ ParseNumberRange
    \/ ParseNumberRanges
    \/ ParseFilterOfRanges
    \/ ParseFiltersOfRanges
    \/ MatchesIndex

SpecRanges == InitRanges /\ [][NextRanges]_vars

(***************************************************************************)
(* The name part of a token: parse_test_name on the specifier, then        *)
(* matches_test of the compiled pattern on a test's name.                  *)
(***************************************************************************)
\* All strings over the alphabet of at most n characters.
Strings(alphabet, n) == UNION { [1..k -> alphabet] : k \in 0..n }

SpecifierChars == {"a", "b", "*"}

NameChars == {"a", "b"}

Specifiers == Strings(SpecifierChars, MaxSpecifierLen)

TestNames == Strings(NameChars, MaxNameLen) \ {<<>>}

\* The specifiers and names of the parse_test_name documentation.
Method == <<"m", "e", "t", "h", "o", "d">>
MethodStar == Method \o <<"*">>
PartAStarMethod == <<"p", "a", "r", "t", "_", "a", ".", "*">> \o Method

DocumentedSpecifiers == {Method, MethodStar, PartAStarMethod}

ABMethod == <<"a", ".", "b", ".">> \o Method
ABPlusMethod == <<"a", ".", "b", ".", "p", "l", "u", "s", "_">> \o Method
ABMethodPlus == ABMethod \o <<"_", "p", "l", "u", "s">>
PartATypeAMethod ==
    <<"p", "a", "r", "t", "_", "a", ".", "T", "y", "p", "e", "A", ".">>
        \o Method
PartATypeBMethod ==
    <<"p", "a", "r", "t", "_", "a", ".", "T", "y", "p", "e", "B", ".">>
        \o Method
PartBTypeAMethod ==
    <<"p", "a", "r", "t", "_", "b", ".", "T", "y", "p", "e", "A", ".">>
        \o Method

DocumentedNames ==
    {ABMethod, ABPlusMethod, ABMethodPlus, PartATypeAMethod,
     PartATypeBMethod, PartBTypeAMethod}

InitName ==
    /\ pc = "name"
    /\ \/ /\ filter_text \in Specifiers
          /\ heap \in { <<DocTest(name, 0)>> : name \in TestNames }
       \/ /\ filter_text \in DocumentedSpecifiers
          /\ heap \in { <<DocTest(name, 0)>> : name \in DocumentedNames }
    /\ parsed = [err |-> NoError, regex |-> <<>>]
    /\ index = 0
    /\ matched = FALSE
    /\ filters_text = <<>>
    /\ original = heap
    /\ discovered = Ids(heap)
    /\ filters = <<>>
    /\ via = ""
    /\ found = <<>>
    /\ refound = <<>>
    /\ ran = <<>>
    /\ exception = NoError
    /\ ControllerIdle

\* IndexedDocTestFilterParser().parse_test_name(filter_text)
ParseTestName ==
    /\ pc = "name"
    /\ parsed' = parse_test_name(filter_text)
    /\ pc' = IF parsed'.err # NoError THEN "name_raised" ELSE "name_parsed"
    /\ UNCHANGED <<filter_text, index, matched>>
    /\ UNCHANGED pipeline_vars
    /\ UNCHANGED controller_vars

\* IndexedDocTestFilter(regex, []).matches_test(test)
MatchesTest ==
    /\ pc = "name_parsed"
    /\ matched' =
          matches_test(IndexedDocTestFilter(parsed.regex, SomeRanges(<<>>)),
                       heap[1])
    /\ pc' = "name_matched"
    /\ UNCHANGED <<filter_text, parsed, index>>
    /\ UNCHANGED pipeline_vars
    /\ UNCHANGED controller_vars

\* The token '<specifier>:5'
SpecifierToken(text) == text \o <<":", "5">>

\* IndexedDocTestFilterParser().parse_filter('<specifier>:5')
ParseFilterOfSpecifier ==
    /\ pc = "name"
    /\ parsed' = parse_filter(SpecifierToken(filter_text))
    /\ pc' = IF parsed'.err # NoError THEN "filter_raised"
             ELSE "filter_parsed"
    /\ UNCHANGED <<filter_text, index, matched>>
    /\ UNCHANGED pipeline_vars
    /\ UNCHANGED controller_vars

NextName ==
    \/ ParseTestName
    \/ ParseFilterOfSpecifier
    \/ MatchesTest

SpecName == InitName /\ [][NextName]_vars

(***************************************************************************)
(* parse_test_name and matches_test on specifiers and names that hold      *)
(* characters with a meaning in regular expressions, and letters of both   *)
(* cases.                                                                  *)
(***************************************************************************)
MaxLiteralLen == 2

MetaChars == {".", "+", "?", "[", "(", "|", "$", "^", "\\"}

LiteralSpecifierChars == {"a", "A", ".", "$", "*"}

LiteralNameChars == {"a", "A", ".", "$", "x"}

\* 'a<c>b' for every such character, against 'a<c>b', 'axb', 'ab', 'aab'.
MetaSpecifiers == { <<"a", c, "b">> : c \in MetaChars }

MetaNames ==
    MetaSpecifiers \cup { <<"a", "x", "b">>, <<"a", "b">>, <<"a", "a", "b">> }

InitLiteral ==
    /\ pc = "name"
    /\ \/ /\ filter_text \in Strings(LiteralSpecifierChars, MaxLiteralLen)
          /\ heap \in { <<DocTest(name, 0)>> :
                          name \in Strings(LiteralNameChars, MaxLiteralLen)
                                      \ {<<>>} }
       \/ /\ filter_text \in MetaSpecifiers
          /\ heap \in { <<DocTest(name, 0)>> : name \in MetaNames }
    /\ parsed = [err |-> NoError, regex |-> <<>>]
    /\ index = 0
    /\ matched = FALSE
    /\ filters_text = <<>>
    /\ original = heap
    /\ discovered = Ids(heap)
    /\ filters = <<>>
    /\ via = ""
    /\ found = <<>>
    /\ refound = <<>>
    /\ ran = <<>>
    /\ exception = NoError
    /\ ControllerIdle

NextLiteral ==
    \/ ParseTestName
    \/ MatchesTest

SpecLiteral == InitLiteral /\ [][NextLiteral]_vars

(***************************************************************************)
(* get_filter_parts on a single token.                                     *)
(***************************************************************************)
TokenChars == {"m", ":", "5"}

PartsTexts == Strings(TokenChars, MaxTokenLen)

InitParts ==
    /\ pc = "parts"
    /\ filter_text \in PartsTexts
    /\ parsed = [err |-> NoError, name |-> <<>>, numbers |-> <<>>]
    /\ index = 0
    /\ matched = FALSE
    /\ PipelineIdle

\* IndexedDocTestFilterParser().get_filter_parts(filter_text)
GetFilterParts ==
    /\ pc = "parts"
    /\ parsed' = get_filter_parts(filter_text)
    /\ pc' = IF parsed'.err # NoError THEN "parts_raised" ELSE "parts_split"
    /\ UNCHANGED <<filter_text, index, matched>>
    /\ UNCHANGED pipeline_vars
    /\ UNCHANGED controller_vars

NextParts == GetFilterParts

SpecParts == InitParts /\ [][NextParts]_vars

(***************************************************************************)
(* parse_number on a number text.                                          *)
(***************************************************************************)
NumberChars == {"0", "4", "-", "+", "_", " ", "x"}

\* Number texts of the parse_number and parse_number_range documentation.
DocumentedNumbers ==
    { <<"5", "1", "2">>, <<"0", "x", "f">>, <<"a", "b", "c">>,
      <<"-", "4">> }

NumberTexts == Strings(NumberChars, MaxNumberLen) \cup DocumentedNumbers

InitNumber ==
    /\ pc = "number"
    /\ filter_text \in NumberTexts
    /\ parsed = [err |-> NoError, value |-> 0]
    /\ index = 0
    /\ matched = FALSE
    /\ PipelineIdle

\* IndexedDocTestFilterParser().parse_number(filter_text)
ParseNumber ==
    /\ pc = "number"
    /\ parsed' = parse_number(filter_text)
    /\ pc' = IF parsed'.err # NoError THEN "number_raised"
             ELSE "number_parsed"
    /\ UNCHANGED <<filter_text, index, matched>>
    /\ UNCHANGED pipeline_vars
    /\ UNCHANGED controller_vars

NextNumber == ParseNumber

SpecNumber == InitNumber /\ [][NextNumber]_vars

(***************************************************************************)
(* Controller.test_challenge (and BaseChallenge.test): the values of the   *)
(* --test flags are joined into one expression and every test module is    *)
(* run through testmod_with_filter.                                        *)
(***************************************************************************)
MaxFlags == 2
MaxFailing == 1

\* filters_text = " ".join(filters_texts)
JoinedWithoutSpace(values) == join(<<>>, values)

JoinedFiltersText(values) == join(<<" ">>, values)

\* A test is named after its module: module.__name__ + '.' + its
\* qualified name, and module names here have no dot.
ModuleOf(name) == split(name, ".")[1]

RECURSIVE Distinct(_)
Distinct(q) ==
    IF q = <<>> THEN <<>>
    ELSE <<Head(q)>> \o Distinct(SelectSeq(Tail(q), LAMBDA x : x # Head(q)))

\* challenge_instance.get_test_modules()
get_test_modules(h, tests) ==
    Distinct([k \in 1..Len(tests) |-> ModuleOf(h[tests[k]].name)])

\* doctest.DocTestFinder.find(module): the tests of one module
TestsOf(module, h, tests) ==
    SelectSeq(tests, LAMBDA t : ModuleOf(h[t].name) = module)

\* testmod_with_filter, ignoring filters_text
testmod_unfiltered(text, h, tests) ==
    [err |-> NoError, heap |-> h, tests |-> tests, filters |-> <<>>]

\* testmod_with_filter: the tests the runner is handed.  A filtering finder
\* is built only for a text that is not the empty string.
testmod_with_filter(text, h, tests) ==
    IF text = <<>>
    THEN [err |-> NoError, heap |-> h, tests |-> tests, filters |-> <<>>]
    ELSE LET built == parse_filters(text)
         IN IF built.err # NoError
            THEN [err |-> built.err, heap |-> h, tests |-> <<>>,
                  filters |-> <<>>]
            ELSE LET out == find(built.filters, h, tests)
                 IN [err |-> NoError, heap |-> out.heap, tests |-> out.tests,
                     filters |-> built.filters]

\* The list comprehension over test_modules; the first exception
\* propagates.
RECURSIVE TestModules(_, _, _, _)
TestModules(text, h, tests, modules) ==
    IF modules = <<>>
    THEN [err |-> NoError, heap |-> h, tests |-> <<>>, filters |-> <<>>]
    ELSE LET one == testmod_with_filter(text, h,
                                        TestsOf(Head(modules), h, tests))
         IN IF one.err # NoError THEN one
            ELSE LET others == TestModules(text, one.heap, tests,
                                           Tail(modules))
                 IN IF others.err # NoError THEN others
                    ELSE [err |-> NoError, heap |-> others.heap,
                          tests |-> one.tests \o others.tests,
                          filters |-> one.filters]

RECURSIVE Tries(_, _)
\* runner.tries: every example of every test handed to runner.run
Tries(h, tests) ==
    IF tests = <<>> THEN 0
    ELSE Len(h[Head(tests)].examples) + Tries(h, Tail(tests))

\* The examples the runner ran, as <<name, original position>>.
RunExamples(h, tests) ==
    UNION { { <<h[tests[k]].name, h[tests[k]].examples[e]>> :
                e \in 1..Len(h[tests[k]].examples) } : k \in 1..Len(tests) }

\* An example sees the globals its predecessors left: its outcome is the
\* one of the untrimmed test when every earlier example also ran.
Determinate(ran_examples, example) ==
    \A q \in 0..(example[2] - 1) : <<example[1], q>> \in ran_examples

\* runner.failures: the sets of examples that can fail in this run
Failures(ran_examples, fail) ==
    { F \in SUBSET ran_examples :
        \A e \in ran_examples :
            Determinate(ran_examples, e) => (e \in F <=> e \in fail) }

FlagValues ==
    { <<>>,
      <<" ">>,
      <<"m">>,
      <<"p", "m", ":", "-", "1">>,
      <<"m", ":", "1", " ", "n", ":", "0", ",", "2", "-">>,
      <<"m", ":", "1", "-", "2", "-", "3">>,
      <<"a", "n", "o", "t", "h", "e", "r">> }

FlagLists == UNION { [1..n -> FlagValues] : n \in 0..MaxFlags }

\* The module of the controller's tests: a failing 'foo', a passing
\* 'another' and 'solve', one example each.
ChallengeFoo ==
    <<"p", ".", "C", "h", "a", "l", "l", "e", "n", "g", "e", ".", "f", "o", "o">>

ChallengeAnother == <<"p", ".", "a", "n", "o", "t", "h", "e", "r">>

ChallengeSolve ==
    <<"p", ".", "C", "h", "a", "l", "l", "e", "n", "g", "e", ".", "s", "o", "l",
      "v", "e">>

ChallengeHeap ==
    <<DocTest(ChallengeFoo, 1), DocTest(ChallengeAnother, 1),
      DocTest(ChallengeSolve, 1)>>

\* Two test modules, 'a' and 'b'.
ControllerHeaps ==
    { <<DocTest(Names[1], 3), DocTest(Names[2], n), DocTest(Names[3], 3)>> :
        n \in {0, 2} }
    \cup { ChallengeHeap }

InitController ==
    /\ pc = "flags"
    /\ filters_texts \in FlagLists
    /\ heap \in ControllerHeaps
    /\ failing \in { F \in SUBSET RunExamples(heap, Ids(heap)) :
                       Cardinality(F) <= MaxFailing }
    /\ test_results = NoResults
    /\ filters_text = <<>>
    /\ original = heap
    /\ discovered = Ids(heap)
    /\ filters = <<>>
    /\ via = ""
    /\ found = <<>>
    /\ refound = <<>>
    /\ ran = <<>>
    /\ exception = NoError
    /\ TokenIdle

\* Controller.test_challenge
TestChallenge ==
    /\ pc = "flags"
    /\ filters_text' = JoinedFiltersText(filters_texts)
    /\ \E r \in { TestModules(filters_text', heap, discovered,
                              get_test_modules(heap, discovered)) } :
          IF r.err # NoError
          THEN /\ pc' = "test_raised"
               /\ exception' = r.err
               /\ UNCHANGED <<heap, filters, found, ran, test_results>>
          ELSE /\ pc' = "tested"
               /\ exception' = exception
               /\ heap' = r.heap
               /\ filters' = r.filters
               /\ found' = r.tests
               /\ ran' = r.tests
               /\ \E F \in Failures(RunExamples(r.heap, r.tests), failing) :
                     test_results' = [attempted |-> Tries(r.heap, r.tests),
                                      failed |-> Cardinality(F)]
    /\ via' = "find"
    /\ UNCHANGED <<original, discovered, refound, filters_texts, failing>>
    /\ UNCHANGED token_vars

NextController == TestChallenge

SpecController == InitController /\ [][NextController]_vars

(***************************************************************************)
(* Calls on a constructed finder: find and filter_tests, the latter with   *)
(* the parsed filters of the finder or with a text, and each a second      *)
(* time on the same discovered tests.                                      *)
(***************************************************************************)
\* DocTestFilterParser().parse_filters(text): parse_filter of the base
\* class raises for the first filter text
base_parse_filters(text) ==
    IF split_filter_texts(text) = <<>>
    THEN [err |-> NoError, filters |-> <<>>]
    ELSE [err |-> NotImplementedError, filters |-> <<>>]

ValueError == "ValueError"

ReturnedUnlessEmpty(r) ==
    IF r.tests = <<>>
    THEN [err |-> ValueError, heap |-> r.heap, tests |-> <<>>]
    ELSE [err |-> NoError, heap |-> r.heap, tests |-> r.tests]

\* return list(filter(None, ...))
Returned(r) == [err |-> NoError, heap |-> r.heap, tests |-> r.tests]

\* filter_tests(tests, filters_or_text) with a list of filters
filter_tests_with_filters(fs, h, tests) == Returned(filter_tests(fs, h, tests))

\* filter_tests(tests, filters_or_text) with a str
filter_tests_with_text(text, h, tests) ==
    LET base == base_parse_filters(text)
    IN IF base.err # NoError
       THEN [err |-> base.err, heap |-> h, tests |-> <<>>]
       ELSE Returned(filter_tests(base.filters, h, tests))

\* Texts handed to filter_tests besides the expression of the finder.
CallTexts ==
    { <<>>, <<" ">>, <<"m">>, <<"m", ":", "1", "-", "2", "-", "3">> }

\* finder.filter_tests(tests, finder.filters)
CallFilterTests ==
    /\ pc = "constructed"
    /\ \E r \in { filter_tests_with_filters(filters, heap, discovered) } :
          /\ heap' = r.heap
          /\ found' = r.tests
          /\ exception' = r.err
          /\ pc' = IF r.err # NoError THEN "call_raised" ELSE "found"
    /\ via' = "filter_tests"
    /\ UNCHANGED <<filters_text, original, discovered, filters, refound, ran>>
    /\ UNCHANGED token_vars
    /\ UNCHANGED controller_vars

\* finder.filter_tests(tests, text)
CallFilterTestsWithText ==
    /\ pc = "constructed"
    /\ \E text \in {filters_text} \cup CallTexts :
          /\ filter_text' = text
          /\ \E r \in { filter_tests_with_text(text, heap, discovered) } :
                /\ heap' = r.heap
                /\ found' = r.tests
                /\ exception' = r.err
                /\ pc' = IF r.err # NoError THEN "call_raised" ELSE "found"
    /\ via' = "filter_tests_text"
    /\ UNCHANGED <<filters_text, original, discovered, filters, refound, ran>>
    /\ UNCHANGED <<parsed, index, matched>>
    /\ UNCHANGED controller_vars

\* a second finder.find on the same module
FindAgain ==
    /\ pc = "found"
    /\ via \in {"find", "filter_tests"}
    /\ \E r \in { find(filters, heap, discovered) } :
          /\ heap' = r.heap
          /\ refound' = r.tests
    /\ pc' = "found_again"
    /\ UNCHANGED <<filters_text, original, discovered, filters, via, found, ran,
                   exception>>
    /\ UNCHANGED token_vars
    /\ UNCHANGED controller_vars

\* a second finder.filter_tests(tests, finder.filters) on the same tests
CallFilterTestsAgain ==
    /\ pc = "found"
    /\ via \in {"find", "filter_tests"}
    /\ \E r \in { filter_tests_with_filters(filters, heap, discovered) } :
          /\ heap' = r.heap
          /\ refound' = r.tests
          /\ exception' = r.err
          /\ pc' = IF r.err # NoError THEN "call_raised_again"
                                      ELSE "filtered_again"
    /\ UNCHANGED <<filters_text, original, discovered, filters, via, found, ran>>
    /\ UNCHANGED token_vars
    /\ UNCHANGED controller_vars

NextCalls ==
    \/ Construct
    \/ Find
    \/ CallFilterTests
    \/ CallFilterTestsWithText
    \/ FindAgain
    \/ CallFilterTestsAgain

SpecCalls == Init /\ [][NextCalls]_vars

\* The selector alone: find, or filter_tests with the finder's filters.
NextSelect ==
    \/ Construct
    \/ Find
    \/ CallFilterTests

SpecSelect == Init /\ [][NextSelect]_vars

(***************************************************************************)
(* IndexedDocTestFilter.matches_example on filters constructed directly,   *)
(* with number_ranges None or a list of ranges.                            *)
(***************************************************************************)
MaxRanges == 2
MaxStop == 3

\* range(start, stop), empty when start >= stop
RangeObjects == { Range(a, b) : a, b \in 0..MaxStop }

NumberRanges ==
    { NoRanges }
    \cup { SomeRanges(q) :
             q \in UNION { [1..n -> RangeObjects] : n \in 0..MaxRanges } }

InitMatch ==
    /\ pc = "parsed"
    /\ filter_text = <<>>
    /\ \E nr \in NumberRanges :
          parsed = [err |-> NoError,
                    filter |-> IndexedDocTestFilter(
                                   parse_test_name(TokenName).regex, nr)]
    /\ index = 0
    /\ matched = FALSE
    /\ heap \in { <<DocTest(Names[1], n)>> : n \in {0, 3} }
    /\ filters_text = <<>>
    /\ original = heap
    /\ discovered = Ids(heap)
    /\ filters = <<>>
    /\ via = ""
    /\ found = <<>>
    /\ refound = <<>>
    /\ ran = <<>>
    /\ exception = NoError
    /\ ControllerIdle

NextMatch == MatchesExample

SpecMatch == InitMatch /\ [][NextMatch]_vars

(***************************************************************************)
(* Properties of the selector (specification Spec).                        *)
(***************************************************************************)
Filtered == pc \in {"found", "refiltered", "done"}

SeqToSet(q) == { q[k] : k \in 1..Len(q) }

\* The filters of the finder whose name pattern matches the test.
NameMatching(test) ==
    { k \in 1..Len(filters) : matches_test(filters[k], test) }

\* The union of the index sets of the given filters, within the test's
\* positions.
PositionsOf(test, matching) ==
    { i \in 0..(Len(test.examples) - 1) :
        \E k \in matching : matches_example(filters[k], i) }

\* The union of the index sets of the name-matching filters.
KeptPositions(test) == PositionsOf(test, NameMatching(test))

\* The discovered tests that keep at least one example, in discovery order.
Survivors ==
    SelectSeq(discovered, LAMBDA t : KeptPositions(original[t]) # {})

ExamplesAt(test, positions) ==
    SelectSeq(test.examples, LAMBDA e : e \in positions)

\* C1: under a non-empty FilterSet the selector keeps, of every test some
\* filter name-matches, exactly the examples whose 0-based position is in
\* the union of the index sets of the filters that name-match the test;
\* a test with no name-matching filter (or no kept example) is dropped.
\* 'method:10-20,7' on 'pkg.mod.method' with 25 examples keeps exactly
\* the 12 positions {7, 10..20}.
C1_KeepsUnionOfMatchingFilters ==
    (Filtered /\ filters # <<>>) =>
        /\ \A survivors \in {Survivors} :
              /\ Len(found) = Len(survivors)
              /\ \A k \in 1..Len(found) :
                    /\ heap[found[k]].name = original[survivors[k]].name
                    /\ heap[found[k]].examples =
                          ExamplesAt(original[survivors[k]],
                                     KeptPositions(original[survivors[k]]))
        /\ \A t \in SeqToSet(discovered) :
              NameMatching(original[t]) = {} =>
                  \A k \in 1..Len(found) : heap[found[k]].name # original[t].name
        /\ filters_text = ScenarioText =>
              /\ Len(found) = 1
              /\ Len(heap[found[1]].examples) = 12
              /\ SeqToSet(heap[found[1]].examples) = {7} \cup (10..20)

\* C1 witness: the documented scenario has been filtered down to 12 examples.
C1_Witness ==
    /\ pc = "found"
    /\ filters_text = ScenarioText
    /\ Len(original[1].examples) = ScenarioExamples
    /\ Len(found) = 1
    /\ Len(heap[found[1]].examples) = 12

\* Two sequences of test ids denote the same tests with the same examples
\* in the same order.
SameTests(a, b) ==
    /\ Len(a) = Len(b)
    /\ \A k \in 1..Len(a) : heap[a[k]] = heap[b[k]]

\* C2 as stated: filter_tests(filter_tests(tests, F), F) equals
\* filter_tests(tests, F) for any tests and any FilterSet F.
C2_Idempotent ==
    (pc = "refiltered" /\ via = "filter_tests") => SameTests(refound, found)

\* Every range segment of every token of the expression has no start
\* number: the token has no ranges part, or each of its segments is '',
\* '-' or '-M'.
RECURSIVE AllSegmentsOpenStart(_)
AllSegmentsOpenStart(segments) ==
    \/ segments = <<>>
    \/ /\ \/ strip(Head(segments)) = <<>>
          \/ Head(strip(Head(segments))) = "-"
       /\ AllSegmentsOpenStart(Tail(segments))

RECURSIVE AllTokensOpenStart(_)
AllTokensOpenStart(tokens) ==
    \/ tokens = <<>>
    \/ /\ AllSegmentsOpenStart(
              split(get_filter_parts(Head(tokens)).numbers, ","))
       /\ AllTokensOpenStart(Tail(tokens))

\* C2 amended: a second application of filter_tests changes nothing when
\* every range of every filter starts at index 0 (no start number).
C2_IdempotentFromZero ==
    (pc = "refiltered" /\ via = "filter_tests"
        /\ AllTokensOpenStart(split_filter_texts(filters_text)))
    => SameTests(refound, found)

\* C2 witness: a first pass that trimmed a test under a FilterSet whose
\* ranges all start at 0, followed by a second pass.
C2_Witness ==
    /\ pc = "refiltered"
    /\ via = "filter_tests"
    /\ AllTokensOpenStart(split_filter_texts(filters_text))
    /\ \E k \in 1..Len(found) : found[k] > Len(original)
    /\ refound = found

\* C3: for the empty and every whitespace-only expression parse_filters
\* returns no filter (and does not raise), and find returns exactly the
\* discovered tests: the same objects, in the same order, each with all its
\* examples.
C3_EmptyFilterPassThrough ==
    strip(filters_text) = <<>> =>
        /\ pc # "raised"
        /\ filters = <<>>
        /\ (Filtered /\ via = "find") =>
              /\ found = discovered
              /\ \A t \in SeqToSet(discovered) : heap[t] = original[t]

\* C3 witness: find has returned under a whitespace-only expression.
C3_Witness ==
    /\ pc = "found"
    /\ via = "find"
    /\ filters_text # <<>>
    /\ strip(filters_text) = <<>>
    /\ Len(found) = MaxTests
    /\ \E k \in 1..Len(found) : heap[found[k]].examples = <<>>

\* All of a test's examples are kept by the FilterSet.
AllKept(test) ==
    \E matching \in {NameMatching(test)} :
        /\ matching # {}
        /\ PositionsOf(test, matching) = 0..(Len(test.examples) - 1)

\* The discovered test an output test comes from (names are unique).
Origin(id) ==
    CHOOSE t \in SeqToSet(discovered) : original[t].name = heap[id].name

\* A new object is in the output only where an example was removed.
CopiesAreTrimmed ==
    \A k \in 1..Len(found) :
        found[k] \notin SeqToSet(discovered) =>
            Len(heap[found[k]].examples)
                < Len(original[Origin(found[k])].examples)

\* C4 as stated: whenever all of a test's examples are kept the selector
\* returns the very same object, and a new object is created only when an
\* example is removed.
C4_AllKeptReturnsSameObject ==
    (Filtered /\ filters # <<>>) =>
        /\ \A t \in SeqToSet(discovered) :
              AllKept(original[t]) => t \in SeqToSet(found)
        /\ CopiesAreTrimmed

\* C4 amended: whenever a test has at least one example and all of its
\* examples are kept, the selector returns the very same object; a new
\* object is created only when an example is removed.
C4_NonEmptyAllKeptReturnsSameObject ==
    (Filtered /\ filters # <<>>) =>
        /\ \A t \in SeqToSet(discovered) :
              (AllKept(original[t]) /\ original[t].examples # <<>>)
                  => t \in SeqToSet(found)
        /\ CopiesAreTrimmed

\* C4 witness: one test came back as the same object, another as a copy.
C4_Witness ==
    /\ pc = "found"
    /\ filters # <<>>
    /\ \E t \in SeqToSet(discovered) :
          /\ AllKept(original[t])
          /\ original[t].examples # <<>>
          /\ t \in SeqToSet(found)
    /\ \E k \in 1..Len(found) : found[k] \notin SeqToSet(discovered)

\* C5: the selector never mutates its inputs: every input test keeps its
\* name and its examples, passed through, trimmed or dropped, and a trimmed
\* result is an object distinct from every input test.
C5_InputsNotMutated ==
    /\ Len(heap) >= Len(original)
    /\ \A t \in 1..Len(original) : heap[t] = original[t]
    /\ \A k \in 1..Len(found) :
          heap[found[k]].examples # original[Origin(found[k])].examples
              => found[k] \notin SeqToSet(discovered)
    /\ \A k \in 1..Len(refound) :
          heap[refound[k]].examples # original[Origin(refound[k])].examples
              => refound[k] \notin SeqToSet(discovered)

\* C5 witness: one input test was trimmed and another dropped.
C5_Witness ==
    /\ pc = "found"
    /\ Len(discovered) = MaxTests
    /\ Len(found) = 1
    /\ found[1] > Len(original)
    /\ \A t \in SeqToSet(discovered) : original[t].examples # <<>>

StrictlyIncreasing(q) ==
    \A i \in 1..Len(q) : \A j \in 1..Len(q) : i < j => q[i] < q[j]

\* The positions, in the discovered sequence, of the tests of an output.
OriginsOf(out) == [k \in 1..Len(out) |-> Origin(out[k])]

OrderPreserved(out) ==
    /\ StrictlyIncreasing(OriginsOf(out))
    /\ \A k \in 1..Len(out) :
          /\ StrictlyIncreasing(heap[out[k]].examples)
          /\ SeqToSet(heap[out[k]].examples)
                \subseteq SeqToSet(original[Origin(out[k])].examples)

\* C6: the output of filter_tests is a subsequence of the input tests
\* (relative order kept, none duplicated) and within every surviving test
\* the kept examples are in their original relative order.
C6_OrderPreserved ==
    /\ Filtered => OrderPreserved(found)
    /\ pc = "refiltered" => OrderPreserved(refound)

\* C6 witness: two tests survive, one of them trimmed to two examples.
C6_Witness ==
    /\ pc = "found"
    /\ filters # <<>>
    /\ Len(found) = MaxTests
    /\ \E k \in 1..Len(found) :
          /\ found[k] > Len(original)
          /\ Len(heap[found[k]].examples) >= 2

\* Some token of the expression is invalid: parse_filter raises on it.
HasInvalidToken(text) ==
    \E tokens \in {split_filter_texts(text)} :
        \E k \in 1..Len(tokens) : parse_filter(tokens[k]).err # NoError

\* C7: if any token of the expression is invalid,
\* InvalidTestFilterException is raised while the finder is constructed:
\* find examines no test and the runner runs nothing, and no FilterSet made
\* of the valid tokens is ever used.
C7_InvalidRaisedAtParseTime ==
    HasInvalidToken(filters_text) =>
        /\ pc \in {"start", "raised"}
        /\ pc = "raised" => exception = InvalidTestFilterException
        /\ filters = <<>>
        /\ found = <<>>
        /\ ran = <<>>
        /\ heap = original

\* C7 witness: construction raised on an expression whose first token is
\* valid, with tests waiting to be found.
C7_Witness ==
    /\ pc = "raised"
    /\ exception = InvalidTestFilterException
    /\ discovered # <<>>
    /\ Len(split_filter_texts(filters_text)) = MaxTokens
    /\ parse_filter(split_filter_texts(filters_text)[1]).err = NoError

(***************************************************************************)
(* Properties of a single filter token (specification SpecFilter).         *)
(***************************************************************************)
\* C8 as stated: a name-only token, and a token 'name:' with an empty
\* ranges part, match every example index i >= 0, with no upper limit.
C8_NameOnlyMatchesEveryIndex ==
    (pc = "matched" /\ filter_text \in {TokenName, NameColon}) =>
        matched = TRUE

\* C9 as stated: the empty segment and '-' match every index i >= 0, and
\* 'N-' matches exactly the indices i >= N, with no maximum index.
C9_OpenEndedIsUnbounded ==
    pc = "matched" =>
        /\ filter_text \in {NameColon, Dash} => matched = TRUE
        /\ \A n \in TokenNumbers :
              filter_text = From(n) => (matched <=> index >= n)

\* C10: bounded segments are inclusive at both ends: 'N' matches exactly
\* index N, '-M' exactly 0..M, 'N-M' with N <= M exactly N..M; so
\* '256-512' matches 256 and 512 and neither 255 nor 513.
C10_BoundedRangesInclusive ==
    /\ \A n \in TokenNumbers :
          /\ filter_text \in {Single(n), UpTo(n)} => pc # "token_raised"
          /\ \A m \in TokenNumbers :
                filter_text = FromTo(n, m) => pc # "token_raised"
    /\ pc = "matched" =>
          \A n \in TokenNumbers :
              /\ filter_text = Single(n) => (matched <=> index = n)
              /\ filter_text = UpTo(n) =>
                    (matched <=> (0 <= index /\ index <= n))
              /\ \A m \in TokenNumbers :
                    (filter_text = FromTo(n, m) /\ n <= m) =>
                        (matched <=> (n <= index /\ index <= m))

\* C10 witness: '256-512' has been asked about its upper end, 512, and
\* matched it.
C10_Witness ==
    /\ pc = "matched"
    /\ filter_text = FromTo(256, 512)
    /\ index = 512
    /\ matched = TRUE

(***************************************************************************)
(* Properties of the ranges part (specification SpecRanges).               *)
(***************************************************************************)
\* The number of occurrences of a character in a text.
CountOf(ch, text) == Cardinality({ k \in 1..Len(text) : text[k] = ch })

\* The comma-separated segments of the ranges text.
SegmentsOf(text) == split(text, ",")

\* The segment, parsed on its own, contains the index.
SegmentMatches(segment, i) ==
    \E r \in {parse_number_range(segment)} :
        r.err = NoError /\ InRange(i, r.range)

HasInvalidSegment(segments) ==
    \E k \in 1..Len(segments) : segments[k] \in InvalidSegments

HasReversedSegment(segments) ==
    \E k \in 1..Len(segments) : segments[k] \in ReversedSegments

OneSevenWithReversed == <<"1", ",", "2", "0", "-", "1", "0", ",", "7">>

\* C11: a reversed segment 'N-M' with N > M parses without raising and
\* matches no index; in a comma-separated list it contributes nothing to
\* the matched set: '1,20-10,7' matches exactly {1, 7}.
C11_ReversedRangeMatchesNothing ==
    \A segments \in {SegmentsOf(filter_text)} :
        /\ filter_text \in ReversedSegments =>
              /\ pc \notin {"range_raised", "ranges_raised", "filter_raised",
                            "filters_raised"}
              /\ pc = "range_parsed" =>
                    \A i \in RangeProbeIndexes : ~InRange(i, parsed.range)
              /\ pc = "ranges_matched" => matched = FALSE
        /\ (HasReversedSegment(segments) /\ ~HasInvalidSegment(segments)) =>
              pc # "ranges_raised"
        /\ pc = "ranges_matched" =>
              /\ matched <=>
                    \E k \in 1..Len(segments) :
                        /\ segments[k] \notin ReversedSegments
                        /\ SegmentMatches(segments[k], index)
              /\ filter_text = OneSevenWithReversed =>
                    (matched <=> index \in {1, 7})

\* C11 witness: '1,20-10,7' has been asked about index 10, inside the
\* reversed segment, and did not match it.
C11_Witness ==
    /\ pc = "ranges_matched"
    /\ filter_text = OneSevenWithReversed
    /\ index = 10
    /\ matched = FALSE

ReverseOf(q) == [k \in 1..Len(q) |-> q[Len(q) + 1 - k]]

\* The ranges text parses and the parsed ranges match the index.
RangesMatch(text, i) ==
    \E r \in {parse_number_ranges(text)} :
        /\ r.err = NoError
        /\ matches_example(
               IndexedDocTestFilter(<<>>, SomeRanges(r.ranges)), i)

WithEmptySegment ==
    <<"6", "0", "0", "-", ",", "1", "0", "-", "2", "0", ",", ",", "-", "5">>

C17_MalformedRangesRejectedWhole ==
    /\ (pc \in {"range_parsed", "range_raised"}
            /\ CountOf("-", filter_text) > 1) =>
          /\ pc = "range_raised"
          /\ parsed.err = InvalidTestFilterException
    /\ (pc # "ranges" /\ HasInvalidSegment(SegmentsOf(filter_text))) =>
          /\ pc \in {"range_raised", "ranges_raised", "filter_raised",
                     "filters_raised"}
          /\ parsed.err = InvalidTestFilterException
    /\ pc = "ranges_raised" => parsed.ranges = <<>>
    /\ pc = "filter_raised" => parsed.filter = NoFilter
    /\ pc = "filters_raised" => parsed.filters = <<>>

\* C17 witness: parse_filters has raised on 'm m:1,10-20-40,7 m', whose
\* only invalid part is the middle segment of the middle token.
C17_Witness ==
    /\ pc = "filters_raised"
    /\ filter_text =
          <<"1", ",", "1", "0", "-", "2", "0", "-", "4", "0", ",", "7">>
    /\ parsed.err = InvalidTestFilterException

(***************************************************************************)
(* Properties of the name part (specification SpecName).                   *)
(***************************************************************************)
\* The name of the test the pattern is applied to.
TestName == heap[1].name

EndsWith(name, text) ==
    /\ Len(text) <= Len(name)
    /\ SubSeq(name, Len(name) - Len(text) + 1, Len(name)) = text

HasStar(text) == \E k \in 1..Len(text) : text[k] = "*"

\* C13: a name specifier with no '*' matches a fully-qualified name if and
\* only if the name ends with the specifier's text, as a character suffix:
\* 'method' matches 'a.b.method' and 'a.b.plus_method' but not
\* 'a.b.method_plus', and 'method*' matches all three.
C13_PlainSpecifierIsSuffixMatch ==
    pc = "name_matched" =>
        /\ ~HasStar(filter_text) =>
              (matched <=> EndsWith(TestName, filter_text))
        /\ filter_text = Method =>
              /\ TestName \in {ABMethod, ABPlusMethod} => matched = TRUE
              /\ TestName = ABMethodPlus => matched = FALSE
        /\ filter_text = MethodStar =>
              (TestName \in {ABMethod, ABPlusMethod, ABMethodPlus}
                  => matched = TRUE)

\* C13 witness: 'method' has matched 'a.b.plus_method', whose last dotted
\* component is not 'method'.
C13_Witness ==
    /\ pc = "name_matched"
    /\ filter_text = Method
    /\ TestName = ABPlusMethod
    /\ matched = TRUE

\* The literal segments of a specifier: its non-empty pieces between '*'.
LiteralSegments(text) ==
    SelectSeq(split(text, "*"), LAMBDA segment : segment # <<>>)

EndsWithStar(text) == text # <<>> /\ text[Len(text)] = "*"

\* The segments occur in the name in this order, without overlapping, from
\* position `from` on; the name ends with the last of them unless open_end.
RECURSIVE OccurInOrder(_, _, _, _)
OccurInOrder(segments, name, from, open_end) ==
    IF segments = <<>> THEN open_end \/ from = Len(name) + 1
    ELSE \E p \in from..(Len(name) - Len(Head(segments)) + 1) :
             /\ SubSeq(name, p, p + Len(Head(segments)) - 1) = Head(segments)
             /\ OccurInOrder(Tail(segments), name,
                             p + Len(Head(segments)), open_end)

\* The specifier with every run of '*' replaced by a single '*'.
RECURSIVE CollapseStars(_)
CollapseStars(text) ==
    IF Len(text) < 2 THEN text
    ELSE IF text[1] = "*" /\ text[2] = "*" THEN CollapseStars(Tail(text))
    ELSE <<Head(text)>> \o CollapseStars(Tail(text))

\* The specifier compiles and its pattern matches the test's name.
SpecifierMatches(specifier) ==
    \E r \in {parse_test_name(specifier)} :
        r.err = NoError /\ re_match(r.regex, TestName)

\* C14: for a specifier made of literal segments s1..sk separated by runs
\* of '*', the compiled pattern matches a name if and only if s1..sk occur
\* in the name in that order without overlapping, with any text before s1
\* and between segments, the name ending exactly at the end of sk unless
\* the specifier ends with '*'; a run of '*' is equivalent to a single '*'
\* and a leading '*' changes nothing.  'part_a.*method' selects
\* 'part_a.TypeA.method' and 'part_a.TypeB.method', not
\* 'part_b.TypeA.method'.
C14_SegmentsInOrder ==
    pc = "name_matched" =>
        /\ matched <=>
              OccurInOrder(LiteralSegments(filter_text), TestName, 1,
                           EndsWithStar(filter_text))
        /\ matched <=> SpecifierMatches(CollapseStars(filter_text))
        /\ matched <=> SpecifierMatches(<<"*">> \o filter_text)
        /\ filter_text = PartAStarMethod =>
              (matched <=> TestName \in {PartATypeAMethod, PartATypeBMethod})

\* C14 witness: 'part_a.*method' has been applied to 'part_b.TypeA.method',
\* which ends with 'method' but does not hold 'part_a.', and did not match.
C14_Witness ==
    /\ pc = "name_matched"
    /\ filter_text = PartAStarMethod
    /\ TestName = PartBTypeAMethod
    /\ matched = FALSE

\* C15: parse_test_name raises InvalidTestFilterException if and only if
\* the name specifier is empty once every '*' is removed ('', '*', '**',
\* and any token such as ':5' whose name part is empty); for every other
\* specifier it returns a pattern without raising.
C15_RaisesIffNoLiteralContent ==
    pc # "name" =>
        /\ pc \in {"name_raised", "filter_raised"} <=>
              (\A k \in 1..Len(filter_text) : filter_text[k] = "*")
        /\ pc \in {"name_raised", "filter_raised"} =>
              parsed.err = InvalidTestFilterException
        /\ filter_text \in {<<>>, <<"*">>, <<"*", "*">>} =>
              pc \in {"name_raised", "filter_raised"}
        /\ pc \in {"name_parsed", "name_matched"} => parsed.regex # <<>>
        /\ pc = "filter_parsed" => parsed.filter.name_regex # <<>>

\* C15 witness: parse_test_name has raised on '**'.
C15_Witness ==
    /\ pc = "name_raised"
    /\ filter_text = <<"*", "*">>
    /\ parsed.err = InvalidTestFilterException

(***************************************************************************)
(* Properties of get_filter_parts (specification SpecParts).               *)
(***************************************************************************)
\* C16: a filter token with more than one ':' is rejected with
\* InvalidTestFilterException; a token with exactly one ':' is split at it
\* into (name part, ranges part), either of which may be empty, and a token
\* with no ':' yields (token, '').
C16_AtMostOneColon ==
    pc # "parts" =>
        /\ pc = "parts_raised" <=> CountOf(":", filter_text) > 1
        /\ pc = "parts_raised" => parsed.err = InvalidTestFilterException
        /\ (pc = "parts_split" /\ CountOf(":", filter_text) = 1) =>
              /\ parsed.name \o <<":">> \o parsed.numbers = filter_text
              /\ CountOf(":", parsed.name) = 0
              /\ CountOf(":", parsed.numbers) = 0
        /\ (pc = "parts_split" /\ CountOf(":", filter_text) = 0) =>
              /\ parsed.name = filter_text
              /\ parsed.numbers = <<>>

\* C16 witness: ':5', whose name part is empty, has been split into
\* ('', '5').
C16_Witness ==
    /\ pc = "parts_split"
    /\ filter_text = <<":", "5">>
    /\ parsed.name = <<>>
    /\ parsed.numbers = <<"5">>

(***************************************************************************)
(* Properties of parse_number (specification SpecNumber).                  *)
(***************************************************************************)
AllDigits(text) == \A k \in 1..Len(text) : IsDigit(text[k])

\* The value of a string of decimal digits.
RECURSIVE DecimalValue(_)
DecimalValue(digits) ==
    IF digits = <<>> THEN 0
    ELSE 10 * DecimalValue(SubSeq(digits, 1, Len(digits) - 1))
             + DigitValue(digits[Len(digits)])

\* C18 as stated: parse_number accepts exactly the strings made only of
\* decimal digits, returning their value, and raises
\* InvalidTestFilterException for every other token: any token with a sign,
\* a letter or hex prefix, an underscore or whitespace.
C18_OnlyDigitStringsAccepted ==
    pc # "number" =>
        /\ pc = "number_parsed" <=>
              (filter_text # <<>> /\ AllDigits(filter_text))
        /\ pc = "number_parsed" => parsed.value = DecimalValue(filter_text)
        /\ pc = "number_raised" => parsed.err = InvalidTestFilterException

\* The text without its leading and trailing whitespace.
Core(text) ==
    IF \A k \in 1..Len(text) : IsSpace(text[k]) THEN <<>>
    ELSE SubSeq(text,
                CHOOSE i \in 1..Len(text) :
                    /\ ~IsSpace(text[i])
                    /\ \A k \in 1..(i - 1) : IsSpace(text[k]),
                CHOOSE j \in 1..Len(text) :
                    /\ ~IsSpace(text[j])
                    /\ \A k \in (j + 1)..Len(text) : IsSpace(text[k]))

\* Digits, with single underscores between digits only.
DigitGroups(body) ==
    /\ body # <<>>
    /\ \A k \in 1..Len(body) : IsDigit(body[k]) \/ body[k] = "_"
    /\ IsDigit(body[1])
    /\ IsDigit(body[Len(body)])
    /\ \A k \in 1..(Len(body) - 1) : ~(body[k] = "_" /\ body[k + 1] = "_")

Unsigned(core) ==
    IF core # <<>> /\ core[1] \in {"+", "-"} THEN Tail(core) ELSE core

Digits(body) == SelectSeq(body, IsDigit)

\* The text is a decimal integer literal of int() that is not negative:
\* digit groups after an optional '+', or zero after a '-'.
NonNegativeLiteral(core) ==
    /\ DigitGroups(Unsigned(core))
    /\ core[1] = "-" => DecimalValue(Digits(Unsigned(core))) = 0

\* C18 amended: parse_number accepts exactly the texts int() reads as a
\* non-negative decimal integer: surrounding whitespace is ignored, one
\* leading '+' is allowed (and '-' before a zero), and single underscores
\* may stand between digits; it returns the value of the digits and raises
\* InvalidTestFilterException for every other text.
C18_NonNegativeIntLiteralsAccepted ==
    pc # "number" =>
        /\ pc = "number_parsed" <=> NonNegativeLiteral(Core(filter_text))
        /\ pc = "number_parsed" =>
              parsed.value =
                  DecimalValue(Digits(Unsigned(Core(filter_text))))
        /\ pc = "number_raised" => parsed.err = InvalidTestFilterException
        /\ (filter_text # <<>> /\ AllDigits(filter_text)) =>
              /\ pc = "number_parsed"
              /\ parsed.value = DecimalValue(filter_text)

\* C18 witness: parse_number has accepted '+4' and returned 4.
C18_Witness ==
    /\ pc = "number_parsed"
    /\ filter_text = <<"+", "4">>
    /\ parsed.value = 4

(***************************************************************************)
(* Properties of the FilterSet (specification Spec).                       *)
(***************************************************************************)
\* The maximal runs of non-whitespace characters of the text, left to
\* right.
RECURSIVE RunsFrom(_, _, _)
RunsFrom(text, i, run) ==
    IF i > Len(text) THEN (IF run = <<>> THEN <<>> ELSE <<run>>)
    ELSE IF IsSpace(text[i])
         THEN (IF run = <<>> THEN <<>> ELSE <<run>>)
                  \o RunsFrom(text, i + 1, <<>>)
         ELSE RunsFrom(text, i + 1, Append(run, text[i]))

NonSpaceRuns(text) == RunsFrom(text, 1, <<>>)

\* C19: parse_filters splits the expression into its maximal runs of
\* non-whitespace characters and returns exactly one filter per token, in
\* the tokens' left-to-right order; the result depends on the tokens only,
\* not on leading or trailing whitespace or on the length of the
\* whitespace runs between tokens, and no empty token is ever compiled (a
\* raise is always the raise of one of the tokens).
C19_OneFilterPerToken ==
    pc \in {"constructed", "raised"} =>
        \A runs \in {NonSpaceRuns(filters_text)} :
            /\ \A k \in 1..Len(runs) : runs[k] # <<>>
            /\ pc = "raised" <=>
                  \E k \in 1..Len(runs) : parse_filter(runs[k]).err # NoError
            /\ pc # "raised" =>
                  /\ Len(filters) = Len(runs)
                  /\ \A k \in 1..Len(runs) :
                        filters[k] = parse_filter(runs[k]).filter

\* C19 witness: an expression with leading, trailing and doubled
\* whitespace has been parsed into two different filters.
C19_Witness ==
    /\ pc = "constructed"
    /\ filters_text # <<>>
    /\ IsSpace(filters_text[1])
    /\ IsSpace(filters_text[Len(filters_text)])
    /\ \E k \in 1..(Len(filters_text) - 1) :
          IsSpace(filters_text[k]) /\ IsSpace(filters_text[k + 1])
    /\ Len(filters) = MaxTokens
    /\ filters[1] # filters[2]

\* The permutations of 1..n.
Perms(n) ==
    { p \in [1..n -> 1..n] :
        \A i \in 1..n : \A j \in 1..n : i # j => p[i] # p[j] }

Permuted(fs, p) == [k \in 1..Len(fs) |-> fs[p[k]]]

\* filter_tests(tests, fs) on the discovered tests returns the tests that
\* were found: the same names and examples in the same order, and the same
\* objects wherever a test was passed through.
SelectsWhatWasFound(fs) ==
    \E r \in {filter_tests(fs, original, discovered)} :
        /\ Len(r.tests) = Len(found)
        /\ \A k \in 1..Len(found) :
              /\ r.heap[r.tests[k]] = heap[found[k]]
              /\ found[k] <= Len(original) => r.tests[k] = found[k]

\* C20: matching is an order-independent union of filters: for every
\* permutation F' of the FilterSet F, filter_tests(tests, F') returns the
\* same tests with the same examples in the same order as
\* filter_tests(tests, F), and repeating a filter of F changes nothing.
C20_FilterOrderIrrelevant ==
    (pc = "found" /\ (via = "filter_tests" \/ filters # <<>>)) =>
        /\ \A p \in Perms(Len(filters)) :
              SelectsWhatWasFound(Permuted(filters, p))
        /\ \A k \in 1..Len(filters) :
              SelectsWhatWasFound(filters \o <<filters[k]>>)

\* C20 witness: a test was trimmed under two different filters that both
\* match its name, neither of which keeps on its own what the two keep
\* together.
C20_Witness ==
    /\ pc = "found"
    /\ via = "filter_tests"
    /\ Len(filters) = MaxTokens
    /\ \E k \in 1..Len(found) :
          /\ found[k] > Len(original)
          /\ NameMatching(heap[found[k]]) = 1..Len(filters)
          /\ \A j \in 1..Len(filters) :
                ~SelectsWhatWasFound(<<filters[j]>>)

(***************************************************************************)
(* The values of the --test flags.                                         *)
(***************************************************************************)
\* The names of the tests and the examples the runner is handed when the
\* flag values are `values`.
SelectedBy(values) ==
    LET alone == TestModules(JoinedFiltersText(values), original, discovered,
                             get_test_modules(original, discovered))
    IN [err |-> alone.err,
        tests |-> { alone.heap[t].name : t \in SeqToSet(alone.tests) },
        examples |-> RunExamples(alone.heap, alone.tests)]

\* The finder built for the value on its own cannot be constructed.
RaisesAlone(value) == value # <<>> /\ parse_filters(value).err # NoError

RanTests == { heap[t].name : t \in SeqToSet(ran) }

RanExamples == RunExamples(heap, ran)

HoldsToken(value) == \E k \in 1..Len(value) : ~IsSpace(value[k])

WithToken == { i \in 1..Len(filters_texts) : HoldsToken(filters_texts[i]) }

Everything ==
    [err |-> NoError,
     tests |-> { original[t].name : t \in SeqToSet(discovered) },
     examples |-> RunExamples(original, discovered)]

\* C21 as stated: the tests and examples selected for a list of flag
\* values are the union of those selected for each value used on its own,
\* values that are the empty string included.
C21_SelectionIsUnionOfEachValue ==
    (pc = "tested" /\ filters_texts # <<>>) =>
        /\ RanTests = UNION { SelectedBy(<<filters_texts[i]>>).tests :
                                i \in 1..Len(filters_texts) }
        /\ RanExamples = UNION { SelectedBy(<<filters_texts[i]>>).examples :
                                   i \in 1..Len(filters_texts) }

\* C21: the flag values are joined by a single space.  The tests and
\* examples selected for the list are the union of those selected by each
\* value that holds a token, used on its own; a value that is empty or
\* only whitespace adds nothing, although on its own it selects
\* everything; a list in which no value holds a token selects everything.
\* The list raises exactly when one of its values raises on its own, and
\* then with InvalidTestFilterException.
C21_SelectionIsUnionOfValuesWithTokens ==
    /\ pc # "flags" => filters_text = join(<<" ">>, filters_texts)
    /\ pc = "tested" =>
          IF WithToken = {}
          THEN /\ RanTests = Everything.tests
               /\ RanExamples = Everything.examples
          ELSE \A alone \in { [i \in WithToken |->
                                  SelectedBy(<<filters_texts[i]>>)] } :
                  /\ RanTests = UNION { alone[i].tests : i \in WithToken }
                  /\ RanExamples =
                        UNION { alone[i].examples : i \in WithToken }
    /\ pc = "tested" =>
          \A i \in 1..Len(filters_texts) :
              ~HoldsToken(filters_texts[i]) =>
                  SelectedBy(<<filters_texts[i]>>) = Everything
    /\ pc # "flags" =>
          (pc = "test_raised" <=>
              \E i \in 1..Len(filters_texts) :
                  RaisesAlone(filters_texts[i]))
    /\ pc = "test_raised" => exception = InvalidTestFilterException

\* Two values with tokens, each selecting examples the other does not,
\* and one of them holding two tokens.
C21_Witness ==
    /\ pc = "tested"
    /\ Len(filters_texts) = 2
    /\ WithToken = {1, 2}
    /\ Len(split_filter_texts(filters_texts[1])) = 2
    /\ ~(SelectedBy(<<filters_texts[1]>>).examples
            \subseteq SelectedBy(<<filters_texts[2]>>).examples)
    /\ ~(SelectedBy(<<filters_texts[2]>>).examples
            \subseteq SelectedBy(<<filters_texts[1]>>).examples)
    /\ RanExamples # Everything.examples

\* The examples the filters of the finder select, over every test module.
SelectedExamples ==
    IF filters = <<>> THEN RunExamples(original, discovered)
    ELSE UNION { { <<original[t].name, p>> : p \in KeptPositions(original[t]) } :
                   t \in SeqToSet(discovered) }

AnotherOnly == << <<"a", "n", "o", "t", "h", "e", "r">> >>

\* C22: test_challenge runs only the examples of the selected tests:
\* attempted is the number of selected examples summed over the test
\* modules, and a failing example of an unselected test is neither
\* attempted nor counted in failed.  The filter ['another'] on a module
\* with a failing 'foo' and a passing 'another' gives failed = 0 and
\* attempted = 1; with no filter every discovered example is attempted.
C22_AttemptedCountsSelectedExamples ==
    pc = "tested" =>
        /\ RanExamples = SelectedExamples
        /\ RanTests \subseteq Everything.tests
        /\ test_results.attempted = Cardinality(SelectedExamples)
        /\ test_results.failed <= Cardinality(SelectedExamples)
        /\ (\A e \in SelectedExamples : Determinate(SelectedExamples, e)) =>
              test_results.failed = Cardinality(failing \cap SelectedExamples)
        /\ (heap = ChallengeHeap /\ filters_texts = AnotherOnly
              /\ failing = { <<ChallengeFoo, 0>> }) =>
              test_results = [attempted |-> 1, failed |-> 0]
        /\ filters_texts = <<>> =>
              test_results.attempted =
                  Cardinality(RunExamples(original, discovered))

\* The filter ['another'] on the module with the failing 'foo'.
C22_Witness ==
    /\ pc = "tested"
    /\ heap = ChallengeHeap
    /\ filters_texts = AnotherOnly
    /\ failing = { <<ChallengeFoo, 0>> }
    /\ filters # <<>>
    /\ test_results = [attempted |-> 1, failed |-> 0]

(***************************************************************************)
(* Calls of find and filter_tests on a constructed finder.                 *)
(***************************************************************************)
Values(h, ids) == [k \in 1..Len(ids) |-> h[ids[k]]]

\* C23: filter_tests, given the filters of a successful parse, never
\* raises, whatever the tests (tests with no example and tests no filter
\* name-matches included); when nothing matched the result is the empty
\* sequence, returned normally.
C23_FilterTestsNeverRaises ==
    /\ pc = "call_raised" => via = "filter_tests_text"
    /\ pc # "call_raised_again"
    /\ (pc = "found" /\ via = "filter_tests") =>
          /\ exception = NoError
          /\ Len(found) <= Len(discovered)
          /\ Survivors = <<>> => found = <<>>

\* Nothing matched: one test has no example, the other a name no filter
\* matches.
C23_Witness ==
    /\ pc = "found"
    /\ via = "filter_tests"
    /\ exception = NoError
    /\ filters # <<>>
    /\ found = <<>>
    /\ \E t \in SeqToSet(discovered) :
          original[t].examples = <<>> /\ NameMatching(original[t]) # {}
    /\ \E t \in SeqToSet(discovered) :
          original[t].examples # <<>> /\ NameMatching(original[t]) = {}

\* C24 as stated: filter_tests called with an empty list of filters
\* returns every input test unchanged, as find does for an empty
\* expression.
C24_EmptyListSelectsEverything ==
    (pc = "found" /\ via = "filter_tests" /\ filters = <<>>) =>
        /\ found = discovered
        /\ heap = original

\* C24: filter_tests called with an empty list of filters (or with a text
\* holding no token) returns the empty list and leaves the tests as they
\* were; only find treats the empty FilterSet as 'select everything' and
\* returns every discovered test unchanged.
C24_EmptyListSelectsNothing ==
    /\ (pc = "found" /\ via = "filter_tests" /\ filters = <<>>) =>
          /\ found = <<>>
          /\ heap = original
    /\ (pc = "found" /\ via = "filter_tests_text"
          /\ split_filter_texts(filter_text) = <<>>) =>
          /\ found = <<>>
          /\ heap = original
    /\ (pc = "found" /\ via = "find" /\ filters = <<>>) =>
          /\ found = discovered
          /\ heap = original

\* filter_tests was handed the empty list together with some tests.
C24_Witness ==
    /\ pc = "found"
    /\ via = "filter_tests"
    /\ filters = <<>>
    /\ discovered # <<>>
    /\ found = <<>>

\* C25 as stated: filter_tests handed a valid text returns what it returns
\* for the filters IndexedDocTestFilterParser parses from that text, and
\* handed an invalid text it raises InvalidTestFilterException.
C25_TextEqualsParsedFilters ==
    (pc \in {"found", "call_raised"} /\ via = "filter_tests_text") =>
        \A p \in { parse_filters(filter_text) } :
            IF p.err = NoError
            THEN /\ pc = "found"
                 /\ \A r \in { filter_tests(p.filters, original, discovered) } :
                       Values(heap, found) = Values(r.heap, r.tests)
            ELSE /\ pc = "call_raised"
                 /\ exception = InvalidTestFilterException

\* C30: the filters of a finder are those its construction parsed, and
\* find and filter_tests leave them and the discovered tests as they
\* were, so a second call returns what that call returns on a fresh
\* finder, and what the first call returned when it is the same call.
C30_CallsAreRepeatable ==
    /\ pc \notin {"start", "raised"} =>
          /\ filters = parse_filters(filters_text).filters
          /\ \A t \in SeqToSet(discovered) : heap[t] = original[t]
    /\ pc = "found_again" =>
          /\ \A r \in { find(filters, original, discovered) } :
                Values(heap, refound) = Values(r.heap, r.tests)
          /\ via = "find" => Values(heap, refound) = Values(heap, found)
    /\ pc = "filtered_again" =>
          /\ \A r \in { filter_tests(filters, original, discovered) } :
                Values(heap, refound) = Values(r.heap, r.tests)
          /\ via = "filter_tests" =>
                Values(heap, refound) = Values(heap, found)

\* find trimmed a test, then filter_tests on the same tests made its own,
\* equal copy.
C30_Witness ==
    /\ pc = "filtered_again"
    /\ via = "find"
    /\ \E k \in 1..Len(found) : found[k] > Len(original)
    /\ refound # found
    /\ Values(heap, refound) = Values(heap, found)

(***************************************************************************)
(* The tests the selector returns.                                         *)
(***************************************************************************)
FoundNames == { heap[found[k]].name : k \in 1..Len(found) }

\* The name-matching filters parsed from a token without a ranges part.
Unrestricted(test) ==
    { k \in NameMatching(test) :
        ":" \notin SeqToSet(split_filter_texts(filters_text)[k]) }

\* C26: under a non-empty FilterSet a test with no example is dropped,
\* even when a filter without index restriction name-matches it; under the
\* empty FilterSet find passes the same test through.
C26_TestWithoutExamplesIsDropped ==
    pc = "found" =>
        \A t \in SeqToSet(discovered) :
            original[t].examples = <<>> =>
                /\ filters # <<>> =>
                      /\ original[t].name \notin FoundNames
                      /\ t \notin SeqToSet(found)
                /\ (filters = <<>> /\ via = "find") =>
                      /\ t \in SeqToSet(found)
                      /\ heap[t] = original[t]

\* find dropped a test with no example that a filter made of a name only
\* name-matches.
C26_Witness ==
    /\ pc = "found"
    /\ via = "find"
    /\ filters # <<>>
    /\ \E t \in SeqToSet(discovered) :
          /\ original[t].examples = <<>>
          /\ Unrestricted(original[t]) # {}
          /\ original[t].name \notin FoundNames

\* C27: every test returned under a non-empty FilterSet has at least one
\* example, carries the name of a discovered test, and holds examples of
\* that test only, in their order; a returned copy has strictly fewer
\* examples than the test it was copied from.
C27_OutputTestsAreNonEmptyParts ==
    (pc = "found" /\ filters # <<>>) =>
        \A k \in 1..Len(found) :
            \E t \in SeqToSet(discovered) :
                /\ heap[found[k]].name = original[t].name
                /\ heap[found[k]].examples # <<>>
                /\ SeqToSet(heap[found[k]].examples)
                      \subseteq SeqToSet(original[t].examples)
                /\ StrictlyIncreasing(heap[found[k]].examples)
                /\ IF found[k] \in SeqToSet(discovered)
                   THEN found[k] = t /\ heap[t] = original[t]
                   ELSE Len(heap[found[k]].examples)
                           < Len(original[t].examples)

\* One test came back as it was and another as a trimmed copy.
C27_Witness ==
    /\ pc = "found"
    /\ filters # <<>>
    /\ \E k \in 1..Len(found) : found[k] \in SeqToSet(discovered)
    /\ \E k \in 1..Len(found) :
          /\ found[k] \notin SeqToSet(discovered)
          /\ Len(heap[found[k]].examples) < Len(original[Origin(found[k])].examples)

(***************************************************************************)
(* matches_example on directly constructed filters.                        *)
(***************************************************************************)
IndexesOf(number_ranges) ==
    UNION { number_ranges.list[k].start..(number_ranges.list[k].stop - 1) :
              k \in 1..Len(number_ranges.list) }

\* C28: matches_example is true for every index when number_ranges is
\* None; when number_ranges is a list it is true exactly for the indexes
\* that lie in at least one of its ranges, so the empty list matches no
\* index; the test handed to it makes no difference.
C28_MatchesExampleByNumberRanges ==
    pc = "matched" =>
        \A nr \in { parsed.filter.number_ranges } :
            /\ nr.is_none => matched
            /\ ~nr.is_none => (matched <=> index \in IndexesOf(nr))
            /\ nr = SomeRanges(<<>>) => ~matched

\* An index handed to a filter whose number_ranges is the empty list.
C28_Witness ==
    /\ pc = "matched"
    /\ parsed.filter.number_ranges = SomeRanges(<<>>)
    /\ index > 0
    /\ ~matched

(***************************************************************************)
(* Characters of a name specifier.                                         *)
(***************************************************************************)
ADotB == <<"a", ".", "b">>

AXB == <<"a", "x", "b">>

\* C29: every character of a name specifier other than '*' is matched
\* literally and case-sensitively: the name must hold the specifier's
\* literal segments character for character, so '.' matches only '.', the
\* characters '+', '?', '[', '(', '|', '$', '^' and '\' only themselves,
\* and 'a.b' does not match a name ending in 'axb'.
C29_CharactersMatchLiterally ==
    pc = "name_matched" =>
        /\ matched <=> OccurInOrder(LiteralSegments(filter_text), TestName, 1,
                                    EndsWithStar(filter_text))
        /\ ~HasStar(filter_text) =>
              (matched <=> EndsWith(TestName, filter_text))
        /\ (filter_text = ADotB /\ TestName = AXB) => ~matched
        /\ filter_text \in MetaSpecifiers => (matched <=> TestName = filter_text)

\* 'a.b' was matched against 'axb'.
C29_Witness ==
    /\ pc = "name_matched"
    /\ filter_text = ADotB
    /\ TestName = AXB
    /\ ~matched

====
